---- MODULE Spec2Model ----
(***************************************************************************)
(* Record decoding and normalization pipeline of openrvdas_sikuliaq:       *)
(*   coriolix/logger/utils/regex_parser.py       (RegexParser)             *)
(*   coriolix/logger/transforms/regex_transform.py (RegexTransform)        *)
(*   logger/transforms/normalize_coriolix_transform.py                     *)
(*   logger/transforms/parse_kongsberg_kmb_transform.py                    *)
(*   utils/generate_simulated_kmb_data.py   (the datagrams it packs)       *)
(*   utils/generate_grafana_live_stream.py (generated transform kwargs)    *)
(*                                                                         *)
(* Text is a sequence of one-character strings.  Two symbols abbreviate    *)
(* whole timestamp texts, which are too long to enumerate character by     *)
(* character:  "T" is 2024-01-01T00:00:00.000000Z  and  "Y" is             *)
(* 0001-01-01T00:00:00.000000Z.  Both consist only of characters of the    *)
(* class [0-9TZ:\-\.] and contain characters outside \w, so in the framing *)
(* pattern each behaves as one character of the timestamp class that is    *)
(* neither a word character nor whitespace.                                *)
(***************************************************************************)
EXTENDS Integers, Sequences, FiniteSets, TLC

VARIABLES
  pc,        \* "start" | "constructed" | "ctor_raised" | "returned" |
             \* "converted" | "shared" | "mapper" |
             \* "norm_constructed" | "norm_returned" | "norm_again" |
             \* "kmb_constructed" | "kmb_generated" | "kmb_returned" |
             \* "kmb_compared"
  ctor,      \* how the object was constructed: entry point and arguments
  parser,    \* the fields of the RegexParser instance
  ctor_exc,  \* exception raised by the constructor, or "none"
  input,     \* argument of the last parse_record / transform call
  clock,     \* value time.time() returns during the last call
  tz,        \* seconds the host's local time is east of UTC during the call
  result,    \* value returned by the last call
  raised,    \* exception that escaped the last call, or "none"
  norm,      \* the fields of the NormalizeCoriolixTransform instance
  nfields,   \* fields map given to the last NormalizeCoriolixTransform.transform
  nresult,   \* fields map of the record it returned
  nraised,   \* exception that escaped it, or "none"
  nagain,    \* outcome of transform called on the record it returned
  kmb,       \* the fields of the ParseKongsbergKMBTransform instance
  ksample,   \* the values generate_data packed into the datagram
  krecord,   \* argument of the last ParseKongsbergKMBTransform.transform
  kresult,   \* value it returned
  kraised,   \* exception that escaped it, or "none"
  ksteps,    \* the numbered steps of transform it went through, in order
  kother,    \* the same call on the buffer under another length and version
  built,     \* the shared decoder instances as their constructors left them
  th,        \* per thread: the frame of its decode call on a shared instance
  mapper,    \* SensorIDMapper instance: timeout and its sensor_config's cache
  mapping,   \* SensorIDMapper.mapping: sensor_id -> discovered data_id
  lock,      \* SensorIDMapper.lock: 0 when free, else the probe thread holding it
  scan,      \* the frame of the build_mapping call: position, threads, result
  probe,     \* per sensor position: the frame of the probe thread started for it
  before     \* the mapping when the current build_mapping call began

vars == <<pc, ctor, parser, ctor_exc, input, clock, tz, result, raised,
          norm, nfields, nresult, nraised, nagain,
          kmb, ksample, krecord, kresult, kraised, ksteps, kother,
          built, th, mapper, mapping, lock, scan, probe, before>>

parserVars == <<pc, ctor, parser, ctor_exc, input, clock, tz, result, raised>>
normVars == <<norm, nfields, nresult, nraised, nagain>>
kmbVars == <<kmb, ksample, krecord, kresult, kraised, ksteps, kother>>
sharedVars == <<built, th>>
mapperVars == <<mapper, mapping, lock, scan, probe, before>>

----------------------------------------------------------------------------
(* Bounds *)

\* longest field data enumerated after a line's head
MaxFieldLen == 2

\* threads calling the shared decoder instances at the same time
MaxThreads == 2

\* most sensors the API lists
MaxSensors == 2

----------------------------------------------------------------------------
(* Python values *)

None == [t |-> "None"]
Str(s) == [t |-> "str", s |-> s]
\* a finite float is the exact rational num/den in lowest terms, den > 0
Float(n) == [t |-> "float", num |-> n, den |-> 1]

RECURSIVE GCD(_, _)
GCD(a, b) == IF b = 0 THEN a ELSE GCD(b, a % b)

Abs(n) == IF n < 0 THEN -n ELSE n

\* the float num/den (den > 0) in lowest terms
Rational(num, den) ==
  LET g == GCD(Abs(num), den) IN
  [t |-> "float", num |-> num \div g, den |-> den \div g]

PyInt(n) == [t |-> "int", n |-> n]
Bytes == [t |-> "bytes"]
List(items) == [t |-> "list", items |-> items]
\* a dict is its sequence of <<key, value>> pairs in insertion order
Dict(items) == [t |-> "dict", items |-> items]

\* Python truth value of an argument
Truthy(v) ==
  CASE v.t = "None" -> FALSE
    [] v.t = "bool" -> v.b
    [] v.t = "str" -> v.s # <<>>
    [] v.t = "list" -> v.items # <<>>
    [] v.t = "dict" -> v.items # <<>>
    [] v.t = "int" -> v.n # 0
    [] OTHER -> TRUE

RECURSIVE DictHas(_, _)
DictHas(items, k) ==
  IF items = <<>> THEN FALSE
  ELSE IF Head(items)[1] = k THEN TRUE ELSE DictHas(Tail(items), k)

\* dict.get(k, default)
RECURSIVE DictGet(_, _, _)
DictGet(items, k, default) ==
  IF items = <<>> THEN default
  ELSE IF Head(items)[1] = k THEN Head(items)[2]
  ELSE DictGet(Tail(items), k, default)

\* d[k] = v : replaces the value in place, or appends a new key
DictSet(items, k, v) ==
  IF DictHas(items, k)
  THEN [i \in 1..Len(items) |->
          IF items[i][1] = k THEN <<k, v>> ELSE items[i]]
  ELSE Append(items, <<k, v>>)

\* del d[k]
DictDel(items, k) == SelectSeq(items, LAMBDA kv : kv[1] # k)

DictKeys(items) == {items[i][1] : i \in 1..Len(items)}

----------------------------------------------------------------------------
(* Characters and the framing pattern *)

WordChars == {"a", "1"}          \* \w
SpaceChars == {" "}              \* \s
TsChars == {"1", "T", "Y"}       \* [0-9TZ:\-\.]
FieldAlphabet == {"1", " ", "$"}

\* str.rstrip()
RECURSIVE rstrip(_)
rstrip(s) ==
  IF s = <<>> THEN s
  ELSE IF s[Len(s)] \in SpaceChars THEN rstrip(SubSeq(s, 1, Len(s) - 1))
  ELSE s

AllIn(s, from, n, cls) == \A i \in from..(from + n - 1) : s[i] \in cls

\* The ways (?P<data_id>\w+)\s+(?P<timestamp>[0-9TZ:\-\.]*)\s+ matches at the
\* start of s: <<k, m, t, n>> are the lengths of the four parts.
PrefixDecomps(s) ==
  LET L == Len(s)
      Ks == {k \in 1..L : AllIn(s, 1, k, WordChars)}
      Ms(k) == {m \in 1..(L - k) : AllIn(s, k + 1, m, SpaceChars)}
      Ts(k, m) == {t \in 0..(L - k - m) : AllIn(s, k + m + 1, t, TsChars)}
      Ns(k, m, t) == {n \in 1..(L - k - m - t) :
                       AllIn(s, k + m + t + 1, n, SpaceChars)}
  IN UNION {UNION {UNION {{<<k, m, t, n>> : n \in Ns(k, m, t)} :
                          t \in Ts(k, m)} : m \in Ms(k)} : k \in Ks}

\* the order in which the backtracking matcher prefers two decompositions:
\* every quantifier is greedy, the leftmost one decides first
Prefers(d, e) ==
  \/ d[1] > e[1]
  \/ d[1] = e[1] /\ d[2] > e[2]
  \/ d[1] = e[1] /\ d[2] = e[2] /\ d[3] > e[3]
  \/ d[1] = e[1] /\ d[2] = e[2] /\ d[3] = e[3] /\ d[4] >= e[4]

BestDecomp(s) ==
  CHOOSE d \in PrefixDecomps(s) : \A e \in PrefixDecomps(s) : Prefers(d, e)

NoMatch == [t |-> "NoMatch"]

\* groupdict() of the framing match with the prefix taken as in d
PrefixGroups(s, d) ==
  <<  <<"data_id", Str(SubSeq(s, 1, d[1]))>>,
      <<"timestamp", Str(SubSeq(s, d[1] + d[2] + 1, d[1] + d[2] + d[3]))>>,
      <<"field_string", Str(SubSeq(s, d[1] + d[2] + d[3] + d[4] + 1, Len(s)))>> >>

\* DEFAULT_RECORD_FORMAT:
\* ^(?:(?P<data_id>\w+)\s+(?P<timestamp>[0-9TZ:\-\.]*)\s+)?(?P<field_string>(.|\r|\n)*)
DEFAULT_RECORD_FORMAT == "optional_prefix"
\* custom record formats a caller may configure:
\* ^(?P<data_id>\w+)\s+(?P<timestamp>[0-9TZ:\-\.]*)\s+(?P<field_string>(.|\r|\n)*)
REQUIRED_PREFIX_FORMAT == "required_prefix"
\* ^(?P<field_string>(.|\r|\n)*)
FIELDS_ONLY_FORMAT == "fields_only"

RecordFormats == {DEFAULT_RECORD_FORMAT, REQUIRED_PREFIX_FORMAT, FIELDS_ONLY_FORMAT}

\* compiled_record_format.match(record).groupdict(), or NoMatch when
\* match() returns None
MatchRecordFormat(format, s) ==
  CASE format = FIELDS_ONLY_FORMAT ->
         Dict(<< <<"field_string", Str(s)>> >>)
    [] format = REQUIRED_PREFIX_FORMAT ->
         IF PrefixDecomps(s) = {} THEN NoMatch
         ELSE Dict(PrefixGroups(s, BestDecomp(s)))
    [] OTHER ->
         IF PrefixDecomps(s) = {}
         THEN Dict(<< <<"data_id", None>>, <<"timestamp", None>>,
                      <<"field_string", Str(s)>> >>)
         ELSE Dict(PrefixGroups(s, BestDecomp(s)))

----------------------------------------------------------------------------
(* Field patterns *)

Digits == {"1"}                  \* \d

\* Regular expressions a configuration may name, as re.compile() builds
\* them: a sequence of one-character items, each a character class with the
\* named group that captures it, and whether the pattern ends with $.
PAT_X == "(?P<x>\\d)"
PAT_XY == "(?P<x>\\d)(?P<y>\\w)"
PAT_Y == "(?P<y>\\w)$"
\* a pattern with an optional named group, and a bytes pattern
PAT_OPT == "(?P<x>\\d)(?P<y>\\w)?"
PAT_BYTES == "b'(?P<x>\\d)'"

PatternSources == {PAT_X, PAT_XY, PAT_Y}

Item(cls, group, optional) == [cls |-> cls, group |-> group, optional |-> optional]

\* re.compile(pattern)
compile(pattern) ==
  CASE pattern = PAT_X ->
         [items |-> << Item(Digits, "x", FALSE) >>, dollar |-> FALSE,
          bytes |-> FALSE]
    [] pattern = PAT_XY ->
         [items |-> << Item(Digits, "x", FALSE), Item(WordChars, "y", FALSE) >>,
          dollar |-> FALSE, bytes |-> FALSE]
    [] pattern = PAT_Y ->
         [items |-> << Item(WordChars, "y", FALSE) >>, dollar |-> TRUE,
          bytes |-> FALSE]
    [] pattern = PAT_OPT ->
         [items |-> << Item(Digits, "x", FALSE), Item(WordChars, "y", TRUE) >>,
          dollar |-> FALSE, bytes |-> FALSE]
    [] pattern = PAT_BYTES ->
         [items |-> << Item(Digits, "x", FALSE) >>, dollar |-> FALSE,
          bytes |-> TRUE]

\* match() as re.fullmatch would decide it
match_whole_string(pattern, s) ==
  IF /\ Len(s) = Len(pattern.items)
     /\ \A i \in 1..Len(pattern.items) : s[i] \in pattern.items[i].cls
  THEN Dict([i \in 1..Len(pattern.items) |->
               <<pattern.items[i].group, Str(<<s[i]>>)>>])
  ELSE NoMatch

\* pattern.match(s) raised: a bytes pattern cannot be used on a str
MatchFault == [t |-> "TypeError"]

\* the items of a pattern matched against s from position pos on: an item
\* takes the character it accepts, and an optional item that cannot take
\* one (or after which the rest does not match) takes part in the match
\* with no capture
RECURSIVE match_items(_, _, _, _)
match_items(items, dollar, s, pos) ==
  IF items = <<>>
  THEN [ok |-> ~dollar \/ pos > Len(s), groups |-> <<>>]
  ELSE LET item == Head(items)
           taken == IF pos <= Len(s) /\ s[pos] \in item.cls
                    THEN match_items(Tail(items), dollar, s, pos + 1)
                    ELSE [ok |-> FALSE, groups |-> <<>>]
           left == IF item.optional
                   THEN match_items(Tail(items), dollar, s, pos)
                   ELSE [ok |-> FALSE, groups |-> <<>>]
       IN IF taken.ok
          THEN [ok |-> TRUE,
                groups |-> << <<item.group, Str(<<s[pos]>>)>> >> \o taken.groups]
          ELSE IF left.ok
          THEN [ok |-> TRUE, groups |-> << <<item.group, None>> >> \o left.groups]
          ELSE [ok |-> FALSE, groups |-> <<>>]

\* pattern.match(s): the pattern is tried at the start of s only, and s may
\* go on after the match unless the pattern ends with $.  The value is the
\* match's groupdict(), in which a group that took no part is None, or
\* NoMatch for None, or MatchFault where the call raises.
match(pattern, s) ==
  IF pattern.bytes THEN MatchFault
  ELSE LET found == match_items(pattern.items, pattern.dollar, s, 1) IN
       IF found.ok THEN Dict(found.groups) ELSE NoMatch

----------------------------------------------------------------------------
(* RegexParser.__init__ *)

\* the exceptions the code raises
ONLY_ONE_MODE == "ValueError: Only one of return_json and return_das_record may be true."
BAD_FIELD_PATTERNS == "ValueError: field_patterns must either be a list of patterns or dict of message_type:pattern pairs."
UNEXPECTED_KEYWORD == "TypeError: __init__() got an unexpected keyword argument"
YEAR_OUT_OF_RANGE == "ValueError: year 0 is out of range"

Exc(name) == [exc |-> name, value |-> None]
Return(v) == [exc |-> "none", value |-> v]

PyBool(b) == [t |-> "bool", b |-> b]
\* a regular expression given as a record_format argument
Regex(source) == [t |-> "regex", source |-> source]

ParserParams == {"record_format", "field_patterns", "default_data_id",
                 "return_das_record", "return_json", "quiet"}

\* the compiled field patterns: a list keeps its order, a dict its keys
CompileFieldPatterns(field_patterns) ==
  IF field_patterns.t = "list"
  THEN List([i \in 1..Len(field_patterns.items) |->
               compile(field_patterns.items[i])])
  ELSE Dict([i \in 1..Len(field_patterns.items) |->
               <<field_patterns.items[i][1], compile(field_patterns.items[i][2])>>])

\* RegexParser(**kwargs): the instance's fields and the exception raised
RegexParser_init(kwargs) ==
  LET record_format == DictGet(kwargs, "record_format", None)
      field_patterns == DictGet(kwargs, "field_patterns", None)
      self == [quiet |-> DictGet(kwargs, "quiet", PyBool(FALSE)),
               field_patterns |-> field_patterns,
               record_format |-> IF Truthy(record_format) THEN record_format.source
                                 ELSE DEFAULT_RECORD_FORMAT,
               return_das_record |-> DictGet(kwargs, "return_das_record", PyBool(FALSE)),
               return_json |-> DictGet(kwargs, "return_json", PyBool(FALSE)),
               default_data_id |-> DictGet(kwargs, "default_data_id", None),
               compiled_field_patterns |-> None]
  IN
  IF ~(DictKeys(kwargs) \subseteq ParserParams)
  THEN [exc |-> UNEXPECTED_KEYWORD, self |-> None]
  ELSE IF Truthy(self.return_das_record) /\ Truthy(self.return_json)
  THEN [exc |-> ONLY_ONE_MODE, self |-> None]
  ELSE IF Truthy(field_patterns)
  THEN IF field_patterns.t \in {"list", "dict"}
       THEN [exc |-> "none",
             self |-> [self EXCEPT !.compiled_field_patterns =
                                     CompileFieldPatterns(field_patterns)]]
       ELSE [exc |-> BAD_FIELD_PATTERNS, self |-> None]
  ELSE [exc |-> "none", self |-> self]

----------------------------------------------------------------------------
(* RegexParser.convert_timestamp and RegexParser.parse_record *)

RECURSIVE Pow10(_)
Pow10(n) == IF n = 0 THEN 1 ELSE 10 * Pow10(n - 1)

Numerals == <<"0", "1", "2", "3", "4", "5", "6", "7", "8", "9">>
IsNumeral(c) == \E i \in DOMAIN Numerals : Numerals[i] = c
NumeralValue(c) == (CHOOSE i \in DOMAIN Numerals : Numerals[i] = c) - 1

RECURSIVE NumeralsValue(_)
NumeralsValue(s) ==
  IF s = <<>> THEN 0
  ELSE 10 * NumeralsValue(SubSeq(s, 1, Len(s) - 1)) + NumeralValue(s[Len(s)])

\* the characters a timestamp symbol abbreviates
Spelled(symbol) ==
  IF symbol = "T"
  THEN <<"2", "0", "2", "4", "-", "0", "1", "-", "0", "1", "T", "0", "0", ":",
        "0", "0", ":", "0", "0", ".", "0", "0", "0", "0", "0", "0", "Z">>
  ELSE IF symbol = "Y"
  THEN <<"0", "0", "0", "1", "-", "0", "1", "-", "0", "1", "T", "0", "0", ":",
        "0", "0", ":", "0", "0", ".", "0", "0", "0", "0", "0", "0", "Z">>
  ELSE <<symbol>>

RECURSIVE Spell(_)
Spell(s) == IF s = <<>> THEN <<>> ELSE Spelled(Head(s)) \o Spell(Tail(s))

\* how many numerals s starts with
LeadingNumerals(s) ==
  CHOOSE n \in 0..Len(s) :
    /\ \A i \in 1..n : IsNumeral(s[i])
    /\ n = Len(s) \/ ~IsNumeral(s[n + 1])

\* s cut into its runs of numerals and its other characters one by one
RECURSIVE Tokens(_)
Tokens(s) ==
  IF s = <<>> THEN <<>>
  ELSE LET n == LeadingNumerals(s)
           k == IF n = 0 THEN 1 ELSE n
       IN <<SubSeq(s, 1, k)>> \o Tokens(SubSeq(s, k + 1, Len(s)))

\* a numeric directive of the format: a run of minw..maxw numerals whose
\* value lies in lo..hi (%Y \d\d\d\d, %m 1[0-2]|0[1-9]|[1-9],
\* %d 3[01]|[12]\d|0[1-9]|[1-9], %H 2[0-3]|[0-1]\d|\d, %M [0-5]\d|\d,
\* %S 6[0-1]|[0-5]\d|\d, %f [0-9]{1,6})
Directive(tok, minw, maxw, lo, hi) ==
  /\ Len(tok) \in minw..maxw
  /\ \A i \in 1..Len(tok) : IsNumeral(tok[i])
  /\ NumeralsValue(tok) \in lo..hi

\* a literal character of the format; the format is matched ignoring case
Literal(tok, c, lower) == tok = <<c>> \/ tok = <<lower>>

\* %f: the numerals padded with zeros on the right to six
Microsecond(tok) == NumeralsValue(tok) * Pow10(6 - Len(tok))

is_leap(year) == year % 4 = 0 /\ (year % 100 # 0 \/ year % 400 = 0)

days_in_month(year, month) ==
  IF month = 2 THEN (IF is_leap(year) THEN 29 ELSE 28)
  ELSE IF month \in {4, 6, 9, 11} THEN 30 ELSE 31

RECURSIVE days_before_month(_, _)
days_before_month(year, month) ==
  IF month = 1 THEN 0
  ELSE days_before_month(year, month - 1) + days_in_month(year, month - 1)

days_before_year(year) ==
  LET y == year - 1 IN y * 365 + y \div 4 - y \div 100 + y \div 400

\* proleptic Gregorian ordinal: 0001-01-01 is day 1
ymd2ord(year, month, day) ==
  days_before_year(year) + days_before_month(year, month) + day

\* datetime.datetime.strptime(datetime_text, '%Y-%m-%dT%H:%M:%S.%fZ'): the
\* naive datetime the text spells, or ok = FALSE where it raises ValueError
\* (text that does not match the format, year 0, a day the month does not
\* have, second 60 or 61)
strptime(datetime_text) ==
  LET tok == Tokens(datetime_text)
      shape == /\ Len(tok) = 14
               /\ Directive(tok[1], 4, 4, 0, 9999)
               /\ Literal(tok[2], "-", "-")
               /\ Directive(tok[3], 1, 2, 1, 12)
               /\ Literal(tok[4], "-", "-")
               /\ Directive(tok[5], 1, 2, 1, 31)
               /\ Literal(tok[6], "T", "t")
               /\ Directive(tok[7], 1, 2, 0, 23)
               /\ Literal(tok[8], ":", ":")
               /\ Directive(tok[9], 1, 2, 0, 59)
               /\ Literal(tok[10], ":", ":")
               /\ Directive(tok[11], 1, 2, 0, 61)
               /\ Literal(tok[12], ".", ".")
               /\ Directive(tok[13], 1, 6, 0, 999999)
               /\ Literal(tok[14], "Z", "z")
      year == NumeralsValue(tok[1])
      month == NumeralsValue(tok[3])
      day == NumeralsValue(tok[5])
      second == NumeralsValue(tok[11])
  IN
  IF ~shape THEN [ok |-> FALSE]
  ELSE IF year < 1 \/ day > days_in_month(year, month) \/ second > 59
  THEN [ok |-> FALSE]
  ELSE [ok |-> TRUE, year |-> year, month |-> month, day |-> day,
        hour |-> NumeralsValue(tok[7]), minute |-> NumeralsValue(tok[9]),
        second |-> second, microsecond |-> Microsecond(tok[13])]

StrptimeOk(datetime_text) == strptime(datetime_text).ok

\* datetime_ti.timestamp() of a naive datetime: its fields are read as local
\* time of the host, here a zone utcoffset seconds east of UTC all year.
\* The conversion also looks one day back, which is before year 1 for every
\* time of 0001-01-01 and raises ValueError ("year 0 is out of range").
datetime_timestamp(dt, utcoffset) ==
  LET ordinal == ymd2ord(dt.year, dt.month, dt.day)
      seconds == (ordinal - ymd2ord(1970, 1, 1)) * 86400
                 + dt.hour * 3600 + dt.minute * 60 + dt.second - utcoffset
      g == GCD(dt.microsecond, 1000000)
      den == 1000000 \div g
  IN
  IF ordinal = 1 THEN Exc(YEAR_OUT_OF_RANGE)
  ELSE Return(Rational(seconds * den + dt.microsecond \div g, den))

\* convert_timestamp(datetime_text): None when strptime raises ValueError;
\* otherwise datetime_ti.timestamp(), which is outside the try block
convert_timestamp(datetime_text, utcoffset) ==
  LET datetime_ti == strptime(datetime_text) IN
  IF ~datetime_ti.ok THEN Return(None)
  ELSE datetime_timestamp(datetime_ti, utcoffset)

\* iterate_patterns(obj): (key, value) pairs of a dict, (None, value) of a list
iterate_patterns(obj) ==
  IF obj.t = "dict" THEN obj.items
  ELSE [i \in 1..Len(obj.items) |-> <<None, obj.items[i]>>]

\* the loop without its break: the last matching pattern wins
RECURSIVE try_patterns_no_break(_, _, _, _, _)
try_patterns_no_break(pairs, i, field_string, message_type, fields) ==
  IF i > Len(pairs) THEN [message_type |-> message_type, fields |-> fields]
  ELSE try_patterns_no_break(
         pairs, i + 1, field_string, pairs[i][1],
         IF match(pairs[i][2], field_string) \notin {NoMatch, MatchFault}
         THEN match(pairs[i][2], field_string) ELSE fields)

\* the for loop over the patterns from pair i on: message_type is the loop
\* variable, so it keeps the last key tried when the loop ends without
\* break; an exception of pattern.match is logged and the loop goes on
RECURSIVE try_patterns(_, _, _, _, _)
try_patterns(pairs, i, field_string, message_type, fields) ==
  IF i > Len(pairs) THEN [message_type |-> message_type, fields |-> fields]
  ELSE LET try_parse == match(pairs[i][2], field_string) IN
       IF try_parse = MatchFault
       THEN try_patterns(pairs, i + 1, field_string, pairs[i][1], fields)
       ELSE IF try_parse # NoMatch
       THEN [message_type |-> pairs[i][1], fields |-> try_parse]
       ELSE try_patterns(pairs, i + 1, field_string, pairs[i][1], fields)

\* DASRecord(data_id=, timestamp=, message_type=, fields=, metadata=)
DASRecord(data_id, timestamp, message_type, fields, metadata) ==
  [t |-> "DASRecord", data_id |-> data_id, timestamp |-> timestamp,
   message_type |-> message_type, fields |-> fields, metadata |-> metadata]

\* json.dumps(obj): None is null, a float a number, a str a string and a
\* dict an object with its members in insertion order
RECURSIVE JsonValue(_)
JsonValue(v) ==
  CASE v.t = "None" -> [j |-> "null"]
    [] v.t = "float" -> [j |-> "number", num |-> v.num, den |-> v.den]
    [] v.t = "str" -> [j |-> "string", s |-> v.s]
    [] v.t = "dict" ->
         [j |-> "object",
          members |-> [i \in 1..Len(v.items) |->
                         <<v.items[i][1], JsonValue(v.items[i][2])>>]]

json_dumps(obj) == [t |-> "json", text |-> JsonValue(obj)]

\* lines 186-208: what parse_record returns for the record it has built
parse_result(self, parsed_record, data_id, timestamp, message_type, fields) ==
  LET with_id == DictSet(parsed_record, "data_id", data_id)
      with_ts == IF ~DictHas(with_id, "timestamp")
                 THEN DictSet(with_id, "timestamp", timestamp)
                 ELSE with_id
  IN
  IF Truthy(self.return_das_record)
  THEN DASRecord(data_id, timestamp, message_type, fields, None)
  ELSE IF Truthy(self.return_json) THEN json_dumps(Dict(with_ts))
  ELSE Dict(with_ts)

\* lines 144-180: field_string is stripped and removed from parsed_record,
\* the patterns are tried, and 'fields' is stored when it is not empty
parse_fields(self, parsed_record, data_id, timestamp) ==
  LET raw == DictGet(parsed_record, "field_string", None)
      field_string == IF raw # None THEN Str(rstrip(raw.s)) ELSE None
      without == IF raw # None THEN DictDel(parsed_record, "field_string")
                 ELSE parsed_record
      found == IF Truthy(field_string) /\ Truthy(self.field_patterns)
               THEN try_patterns(iterate_patterns(self.compiled_field_patterns),
                                 1, field_string.s, None, Dict(<<>>))
               ELSE [message_type |-> None, fields |-> Dict(<<>>)]
      with_fields == IF Truthy(found.fields)
                     THEN DictSet(without, "fields", found.fields)
                     ELSE without
  IN Return(parse_result(self, with_fields, data_id, timestamp,
                         found.message_type, found.fields))

\* lines 117-142: data_id and timestamp of the framed record
parse_framed(self, parsed_record, time_time, utcoffset) ==
  LET found_id == DictGet(parsed_record, "data_id", None)
      data_id == IF found_id = None
                 THEN IF Truthy(self.default_data_id) THEN self.default_data_id
                      ELSE Str(<<"u", "n", "k", "n", "o", "w", "n">>)
                 ELSE found_id
      timestamp_text == DictGet(parsed_record, "timestamp", None)
      converted == IF timestamp_text # None
                   THEN convert_timestamp(Spell(timestamp_text.s), utcoffset)
                   ELSE Return(None)
      stored == IF converted.value # None
                THEN DictSet(parsed_record, "timestamp", converted.value)
                ELSE parsed_record
      timestamp == IF converted.value = None THEN Float(time_time)
                   ELSE converted.value
  IN
  IF converted.exc # "none" THEN Exc(converted.exc)
  ELSE parse_fields(self, stored, data_id, timestamp)

\* RegexParser.parse_record(record), with time_time the value of time.time()
\* and utcoffset the offset of the host's local time
parse_record(self, record, time_time, utcoffset) ==
  IF ~Truthy(record) THEN Return(None)
  ELSE IF record.t # "str" THEN Return(None)
  ELSE LET parsed_record == MatchRecordFormat(self.record_format, record.s) IN
       IF parsed_record = NoMatch THEN Return(None)
       ELSE parse_framed(self, parsed_record.items, time_time, utcoffset)

----------------------------------------------------------------------------
(* RegexTransform and the configuration generated for it *)

TransformParams == {"record_format", "field_patterns", "return_json",
                    "return_das_record", "quiet"}

\* RegexTransform(**kwargs): a keyword that __init__ does not declare raises
\* TypeError; the declared ones are handed to RegexParser
RegexTransform_init(kwargs) ==
  IF ~(DictKeys(kwargs) \subseteq TransformParams)
  THEN [exc |-> UNEXPECTED_KEYWORD, self |-> None]
  ELSE RegexParser_init(
         << <<"record_format", DictGet(kwargs, "record_format", None)>>,
            <<"field_patterns", DictGet(kwargs, "field_patterns", None)>>,
            <<"return_json", DictGet(kwargs, "return_json", PyBool(FALSE))>>,
            <<"return_das_record", DictGet(kwargs, "return_das_record", PyBool(FALSE))>>,
            <<"quiet", DictGet(kwargs, "quiet", PyBool(FALSE))>> >>)

\* RegexTransform.transform(record): a list is transformed element by element
RECURSIVE transform_list(_, _, _, _)
transform_list(self, records, time_time, utcoffset) ==
  IF records = <<>> THEN Return(List(<<>>))
  ELSE LET first == parse_record(self, Head(records), time_time, utcoffset)
           rest == transform_list(self, Tail(records), time_time, utcoffset)
       IN IF first.exc # "none" THEN Exc(first.exc)
          ELSE IF rest.exc # "none" THEN Exc(rest.exc)
          ELSE Return(List(<<first.value>> \o rest.value.items))

RegexTransform_transform(self, record, time_time, utcoffset) ==
  IF record = None THEN Return(None)
  ELSE IF record.t = "list" THEN transform_list(self, record.items, time_time, utcoffset)
  ELSE parse_record(self, record, time_time, utcoffset)

\* CoriolixSensorConfig.get_sensor_metadata: the kwargs written into the
\* logger configuration for RegexTransform
regex_transform_kwargs(field_patterns, data_id) ==
  << <<"return_das_record", PyBool(TRUE)>>,
     <<"field_patterns", field_patterns>>,
     <<"default_data_id", data_id>> >>

----------------------------------------------------------------------------
(* Arguments the operations are called with *)

\* most patterns in one configured pattern set
MaxPatterns == 2

InjectiveSeqs(S, n) ==
  {q \in [1..n -> S] : \A i, j \in 1..n : i # j => q[i] # q[j]}

PatternSeqs == UNION {InjectiveSeqs(PatternSources, n) : n \in 0..MaxPatterns}

\* the message type a keyed pattern set declares for each pattern
MessageTypeOf(pattern) ==
  CASE pattern = PAT_X -> Str(<<"M", "X">>)
    [] pattern = PAT_XY -> Str(<<"M", "X", "Y">>)
    [] pattern = PAT_Y -> Str(<<"M", "Y">>)
    [] pattern = PAT_OPT -> Str(<<"M", "O">>)
    [] pattern = PAT_BYTES -> Str(<<"M", "B">>)

Keyed(q) == Dict([i \in 1..Len(q) |-> <<MessageTypeOf(q[i]), q[i]>>])

PatternSets == {List(q) : q \in PatternSeqs} \cup {Keyed(q) : q \in PatternSeqs}

\* values given as field_patterns: none, pattern sets, and a str (empty or not)
FieldPatternArgs == {None, Str(<<>>), Str(<<"a">>)} \cup PatternSets

SensorId == Str(<<"d", "d">>)

Kwargs(rf, fp, dd, das, js) ==
  << <<"record_format", rf>>, <<"field_patterns", fp>>,
     <<"default_data_id", dd>>, <<"return_das_record", PyBool(das)>>,
     <<"return_json", PyBool(js)>> >>

\* every pattern set under the default framing pattern, and the custom
\* framing patterns with and without a pattern
ParserKwargs ==
  {Kwargs(None, fp, dd, das, js) :
     fp \in FieldPatternArgs, dd \in {None, SensorId},
     das \in BOOLEAN, js \in BOOLEAN}
  \cup
  {Kwargs(Regex(rf), fp, dd, das, js) :
     rf \in RecordFormats \ {DEFAULT_RECORD_FORMAT},
     fp \in {None, List(<<PAT_X>>)}, dd \in {None, SensorId},
     das \in BOOLEAN, js \in BOOLEAN}

GeneratedKwargs ==
  {regex_transform_kwargs(fp, SensorId) : fp \in PatternSets \ {List(<<>>), Dict(<<>>)}}

TransformKwargs ==
  GeneratedKwargs \cup
  {<< <<"field_patterns", fp>>, <<"return_das_record", PyBool(das)>> >> :
     fp \in {List(<<PAT_X>>), Keyed(<<PAT_XY, PAT_Y>>)}, das \in BOOLEAN}

Seqs(S, n) == UNION {[1..k -> S] : k \in 0..n}

\* the start of a line: nothing, or a data_id followed by a timestamp text
\* (valid, out of range, malformed, empty)
Heads == {<<>>, <<"a", " ", "T", " ">>, <<"a", " ", "Y", " ">>,
          <<"a", " ", "1", " ">>, <<"a", " ", " ">>}

Lines == {h \o b : h \in Heads, b \in Seqs(FieldAlphabet, MaxFieldLen)}

Records == {None, Bytes, PyInt(0), PyInt(5)} \cup {Str(l) : l \in Lines}

Batches == {List(<<>>), List(<<Str(<<"1">>), Bytes>>),
            List(<<Str(<<"a", " ", "Y", " ", "1">>)>>)}

WallClock == {1793853911}

\* offsets of the host's local time from UTC, in seconds east (TZ=UTC,
\* TZ=Etc/GMT+8, TZ=Etc/GMT-1), as ConvertTimestamp enumerates them
HostUtcOffsets == {0, -28800, 3600}

\* the offset of the host on which ParseRecord and Transform run
ParserUtcOffsets == {0}

----------------------------------------------------------------------------
(* The state machine *)

Idle == [t |-> "idle"]

Init ==
  /\ pc = "start"
  /\ ctor = Idle
  /\ parser = None
  /\ ctor_exc = "none"
  /\ input = Idle
  /\ clock = 0
  /\ tz = 0
  /\ result = Idle
  /\ raised = "none"
  /\ norm = Idle
  /\ nfields = Idle
  /\ nresult = Idle
  /\ nraised = "none"
  /\ nagain = Idle
  /\ kmb = Idle
  /\ ksample = Idle
  /\ krecord = Idle
  /\ kresult = Idle
  /\ kraised = "none"
  /\ ksteps = <<>>
  /\ kother = Idle
  /\ built = Idle
  /\ th = Idle
  /\ mapper = Idle
  /\ mapping = Idle
  /\ lock = 0
  /\ scan = Idle
  /\ probe = Idle
  /\ before = Idle

Constructed(entry, kwargs, made) ==
  /\ ctor' = [entry |-> entry, kwargs |-> kwargs]
  /\ parser' = made.self
  /\ ctor_exc' = made.exc
  /\ pc' = IF made.exc = "none" THEN "constructed" ELSE "ctor_raised"
  /\ UNCHANGED <<input, clock, tz, result, raised>>
  /\ UNCHANGED normVars
  /\ UNCHANGED kmbVars
  /\ UNCHANGED sharedVars
  /\ UNCHANGED mapperVars

\* RegexParser(...) constructed directly
ConstructParser ==
  /\ pc = "start"
  /\ \E kwargs \in ParserKwargs :
       Constructed("RegexParser", kwargs, RegexParser_init(kwargs))

\* RegexTransform(**kwargs) as the logger configuration instantiates it
ConstructTransform ==
  /\ pc = "start"
  /\ \E kwargs \in TransformKwargs :
       Constructed("RegexTransform", kwargs, RegexTransform_init(kwargs))

Called(record, time_time, utcoffset, out) ==
  /\ input' = record
  /\ clock' = time_time
  /\ tz' = utcoffset
  /\ result' = out.value
  /\ raised' = out.exc
  /\ pc' = "returned"
  /\ UNCHANGED <<ctor, parser, ctor_exc>>
  /\ UNCHANGED normVars
  /\ UNCHANGED kmbVars
  /\ UNCHANGED sharedVars
  /\ UNCHANGED mapperVars

\* parser.parse_record(record)
ParseRecord ==
  /\ pc = "constructed"
  /\ ctor.entry = "RegexParser"
  /\ \E record \in Records, time_time \in WallClock, utcoffset \in ParserUtcOffsets :
       Called(record, time_time, utcoffset,
              parse_record(parser, record, time_time, utcoffset))

\* transform.transform(record)
Transform ==
  /\ pc = "constructed"
  /\ ctor.entry = "RegexTransform"
  /\ \E record \in Records \cup Batches, time_time \in WallClock,
        utcoffset \in ParserUtcOffsets :
       Called(record, time_time, utcoffset,
              RegexTransform_transform(parser, record, time_time, utcoffset))

Next == ConstructParser \/ ConstructTransform \/ ParseRecord \/ Transform

Spec == Init /\ [][Next]_vars

----------------------------------------------------------------------------
(* parse_record with patterns that raise and patterns with optional groups *)

FieldSources == {PAT_BYTES, PAT_OPT, PAT_Y}

FieldPatternSeqs ==
  UNION {InjectiveSeqs(FieldSources, n) : n \in 1..MaxPatterns}

FieldKwargs ==
  {Kwargs(None, fp, None, das, js) :
     fp \in {List(q) : q \in FieldPatternSeqs} \cup {Keyed(q) : q \in FieldPatternSeqs},
     das \in BOOLEAN, js \in BOOLEAN}

\* RegexParser(field_patterns=...) with such a pattern set
ConstructFieldParser ==
  /\ pc = "start"
  /\ \E kwargs \in FieldKwargs :
       Constructed("RegexParser", kwargs, RegexParser_init(kwargs))

NextFields == ConstructFieldParser \/ ParseRecord

SpecFields == Init /\ [][NextFields]_vars

----------------------------------------------------------------------------
(* convert_timestamp called on its own *)

\* the parts timestamp texts are put together from: well formed, short,
\* out of range, in the other case, or missing
YearTexts == {<<"0", "0", "0", "0">>, <<"1", "9", "7", "0">>, <<"1", "9", "8", "4">>, <<"8", "4">>}
MonthTexts == {<<"0", "2">>, <<"2">>, <<"1", "3">>}
DayTexts == {<<"0", "1">>, <<"2", "9">>}
HourTexts == {<<"2", "3">>, <<"2", "4">>}
SecondTexts == {<<"0", "0">>, <<"6", "0">>}
FractionTexts == {<<"0", "0", "0", "0", "0", "0">>, <<"5", "0", "0", "0", "0", "0">>, <<"5">>, <<>>}
DateTimeMarks == {<<"T">>, <<"t">>}
ZoneMarks == {<<"Z">>, <<"z">>, <<>>}

TimestampTexts ==
  {y \o <<"-">> \o m \o <<"-">> \o d \o t \o h \o <<":", "5", "9", ":">>
     \o sec \o <<".">> \o f \o z :
     y \in YearTexts, m \in MonthTexts, d \in DayTexts, t \in DateTimeMarks,
     h \in HourTexts, sec \in SecondTexts, f \in FractionTexts, z \in ZoneMarks}
  \cup {Spell(<<"T">>), Spell(<<"Y">>)}

\* parser.convert_timestamp(datetime_text) on a host utcoffset seconds east
\* of UTC
ConvertTimestamp ==
  /\ pc = "start"
  /\ \E datetime_text \in TimestampTexts, utcoffset \in HostUtcOffsets :
       LET out == convert_timestamp(datetime_text, utcoffset) IN
       /\ input' = Str(datetime_text)
       /\ tz' = utcoffset
       /\ result' = out.value
       /\ raised' = out.exc
  /\ pc' = "converted"
  /\ UNCHANGED <<ctor, parser, ctor_exc, clock>>
  /\ UNCHANGED normVars
  /\ UNCHANGED kmbVars
  /\ UNCHANGED sharedVars
  /\ UNCHANGED mapperVars

NextTimestamp == ConvertTimestamp

SpecTimestamp == Init /\ [][NextTimestamp]_vars

----------------------------------------------------------------------------
(* NormalizeCoriolixTransform *)

\* Characters of field values.  "inf" and "nan" are the words float()
\* accepts, each taken as one symbol; "S2" is the superscript two, a
\* character for which str.isdigit() is true and which int() and float()
\* reject.
DecimalDigits == {"5"}
DigitChars == {"5", "S2"}
ValueAlphabet == {"-", "5", ".", "x", "S2", "inf", "nan"}

\* longest field value enumerated
MaxValueLen == 2

Inf(sign) == [t |-> "float", special |-> IF sign < 0 THEN "-inf" ELSE "inf"]
NaN == [t |-> "float", special |-> "nan"]
IsFinite(v) == "num" \in DOMAIN v

\* value.lstrip('-')
RECURSIVE lstrip_minus(_)
lstrip_minus(s) ==
  IF s # <<>> /\ Head(s) = "-" THEN lstrip_minus(Tail(s)) ELSE s

\* str.isdigit()
isdigit(s) == s # <<>> /\ \A i \in 1..Len(s) : s[i] \in DigitChars

IsDecimal(s) == \A i \in 1..Len(s) : s[i] \in DecimalDigits

RECURSIVE DigitsValue(_)
DigitsValue(s) ==
  IF s = <<>> THEN 0 ELSE 10 * DigitsValue(SubSeq(s, 1, Len(s) - 1)) + 5

Unsigned(s) == IF s # <<>> /\ Head(s) = "-" THEN Tail(s) ELSE s
Sign(s) == IF s # <<>> /\ Head(s) = "-" THEN -1 ELSE 1

VALUE_ERROR_INT == "ValueError: invalid literal for int() with base 10"
VALUE_ERROR_FLOAT == "ValueError: could not convert string to float"
OVERFLOW_ERROR == "OverflowError: cannot convert float infinity to integer"
TYPE_ERROR_FLOAT == "TypeError: float() argument must be a string or a real number"

\* int(s) of a str: one optional sign, then decimal digits
int_of_str(s) ==
  IF Unsigned(s) # <<>> /\ IsDecimal(Unsigned(s))
  THEN Return(PyInt(Sign(s) * DigitsValue(Unsigned(s))))
  ELSE Exc(VALUE_ERROR_INT)

\* the places where the unsigned text u splits into digits "." digits
PointSplits(u) ==
  {i \in 1..Len(u) :
     /\ u[i] = "."
     /\ IsDecimal(SubSeq(u, 1, i - 1))
     /\ IsDecimal(SubSeq(u, i + 1, Len(u)))
     /\ Len(u) > 1}

\* float(s) of a str: one optional sign, then inf, nan, or a decimal number
\* with an optional point
float_of_str(s) ==
  LET u == Unsigned(s) IN
  IF u = <<"inf">> THEN Return(Inf(Sign(s)))
  ELSE IF u = <<"nan">> THEN Return(NaN)
  ELSE IF u # <<>> /\ IsDecimal(u)
  THEN Return(Rational(Sign(s) * DigitsValue(u), 1))
  ELSE IF PointSplits(u) # {}
  THEN LET i == CHOOSE i \in PointSplits(u) : TRUE
           frac == SubSeq(u, i + 1, Len(u))
       IN Return(Rational(Sign(s) * (DigitsValue(SubSeq(u, 1, i - 1)) * Pow10(Len(frac))
                                       + DigitsValue(frac)),
                          Pow10(Len(frac))))
  ELSE Exc(VALUE_ERROR_FLOAT)

\* float(value) of any field value
float_of(value) ==
  CASE value.t = "str" -> float_of_str(value.s)
    [] value.t = "int" -> Return(Rational(value.n, 1))
    [] value.t = "float" -> Return(value)
    [] OTHER -> Exc(TYPE_ERROR_FLOAT)

\* NormalizeCoriolixTransform._try_convert_number(value): int(value) is
\* outside the try block, float(value) inside it
try_convert_number(value) ==
  IF value.t = "str"
  THEN IF isdigit(lstrip_minus(value.s))
       THEN int_of_str(value.s)
       ELSE IF float_of_str(value.s).exc = "none" THEN float_of_str(value.s)
       ELSE Return(value)
  ELSE Return(value)

\* str(direction).upper(); the text of a direction that is not a str (None,
\* a number) is never 'S' or 'W' and is written "?"
upper(c) == IF c = "s" THEN "S" ELSE IF c = "w" THEN "W" ELSE c
str_upper(direction) ==
  IF direction.t = "str" THEN [i \in 1..Len(direction.s) |-> upper(direction.s[i])]
  ELSE <<"?">>

\* _nmea_to_decimal comparing the direction as written, without upper()
nmea_to_decimal_case_sensitive(value, direction) ==
  LET val_float == float_of(value) IN
  IF val_float.exc # "none" THEN Return(None)
  ELSE IF ~IsFinite(val_float.value)
  THEN IF val_float.value = NaN THEN Return(None) ELSE Exc(OVERFLOW_ERROR)
  ELSE LET num == val_float.value.num
           den == val_float.value.den
           degrees == num \div (100 * den)
           minutes_num == num - 100 * den * degrees
           decimal_num == degrees * 60 * den + minutes_num
           sign == IF direction.t = "str" /\ direction.s \in {<<"S">>, <<"W">>}
                   THEN -1 ELSE 1
       IN Return(Rational(sign * decimal_num, 60 * den))

\* a mutation: a value that is a float already is taken for decimal degrees
nmea_to_decimal_leaving_floats(value, direction) ==
  IF value.t = "float" THEN Return(value)
  ELSE LET val_float == float_of(value) IN
       IF val_float.exc # "none" \/ ~IsFinite(val_float.value) THEN Return(None)
       ELSE LET num == val_float.value.num
                den == val_float.value.den
                degrees == num \div (100 * den)
                sign == IF str_upper(direction) \in {<<"S">>, <<"W">>} THEN -1 ELSE 1
            IN Return(Rational(sign * (degrees * 60 * den + num - 100 * den * degrees),
                               60 * den))

\* NormalizeCoriolixTransform._nmea_to_decimal(value, direction): ValueError
\* and TypeError are caught and give None, any other exception escapes
nmea_to_decimal(value, direction) ==
  LET val_float == float_of(value) IN
  IF val_float.exc # "none" THEN Return(None)
  ELSE IF ~IsFinite(val_float.value)
  THEN \* math.floor(nan) raises ValueError, which is caught;
       \* math.floor(inf) raises OverflowError, which is not
       IF val_float.value = NaN THEN Return(None) ELSE Exc(OVERFLOW_ERROR)
  ELSE LET num == val_float.value.num
           den == val_float.value.den
           degrees == num \div (100 * den)
           \* minutes = val_float % 100 = (num - 100 * den * degrees) / den
           minutes_num == num - 100 * den * degrees
           decimal_num == degrees * 60 * den + minutes_num
           sign == IF str_upper(direction) \in {<<"S">>, <<"W">>} THEN -1 ELSE 1
       IN Return(Rational(sign * decimal_num, 60 * den))

\* NormalizeCoriolixTransform(lat_lon_map, skip_fields)
Normalize_init(lat_lon_map, skip_fields) ==
  [lat_lon_map |-> IF Truthy(lat_lon_map) THEN lat_lon_map.items ELSE <<>>,
   skip_fields |-> IF Truthy(skip_fields)
                   THEN {skip_fields.items[i] : i \in 1..Len(skip_fields.items)}
                   ELSE {}]

\* step 2 of transform: the loop converting the values of new_fields from
\* item i on
RECURSIVE convert_numbers(_, _, _)
convert_numbers(self, new_fields, i) ==
  IF i > Len(new_fields) THEN [exc |-> "none", value |-> new_fields]
  ELSE IF new_fields[i][1] \in self.skip_fields
  THEN convert_numbers(self, new_fields, i + 1)
  ELSE LET converted == try_convert_number(new_fields[i][2]) IN
       IF converted.exc # "none" THEN Exc(converted.exc)
       ELSE convert_numbers(
              self, [new_fields EXCEPT ![i] = <<new_fields[i][1], converted.value>>],
              i + 1)

\* step 3 of transform, had it moved the raw fields into the derived one:
\* the value and direction fields are deleted once the result is stored
RECURSIVE derive_lat_lon_consuming(_, _, _)
derive_lat_lon_consuming(self, new_fields, i) ==
  IF i > Len(self.lat_lon_map) THEN [exc |-> "none", value |-> new_fields]
  ELSE LET final_name == self.lat_lon_map[i][1]
           raw_val_key == self.lat_lon_map[i][2][1]
           raw_dir_key == self.lat_lon_map[i][2][2]
       IN
       IF ~DictHas(new_fields, raw_val_key)
       THEN derive_lat_lon_consuming(self, new_fields, i + 1)
       ELSE LET decimal_val == nmea_to_decimal(DictGet(new_fields, raw_val_key, None),
                                               DictGet(new_fields, raw_dir_key, None))
            IN
            IF decimal_val.exc # "none" THEN Exc(decimal_val.exc)
            ELSE IF decimal_val.value # None
            THEN derive_lat_lon_consuming(
                   self,
                   DictSet(DictDel(DictDel(new_fields, raw_val_key), raw_dir_key),
                           final_name, decimal_val.value),
                   i + 1)
            ELSE derive_lat_lon_consuming(self, new_fields, i + 1)

\* step 3 of transform: the loop over lat_lon_map from entry i on; an entry
\* is <<final_name, <<raw_val_key, raw_dir_key>>>>
RECURSIVE derive_lat_lon(_, _, _)
derive_lat_lon(self, new_fields, i) ==
  IF i > Len(self.lat_lon_map) THEN [exc |-> "none", value |-> new_fields]
  ELSE LET final_name == self.lat_lon_map[i][1]
           raw_val_key == self.lat_lon_map[i][2][1]
           raw_dir_key == self.lat_lon_map[i][2][2]
       IN
       IF ~DictHas(new_fields, raw_val_key)
       THEN derive_lat_lon(self, new_fields, i + 1)
       ELSE LET decimal_val == nmea_to_decimal(DictGet(new_fields, raw_val_key, None),
                                               DictGet(new_fields, raw_dir_key, None))
            IN
            IF decimal_val.exc # "none" THEN Exc(decimal_val.exc)
            ELSE IF decimal_val.value # None
            THEN derive_lat_lon(self, DictSet(new_fields, final_name, decimal_val.value),
                                i + 1)
            ELSE derive_lat_lon(self, new_fields, i + 1)

EnvelopeKeys == {"timestamp", "data_id", "message_type"}

\* step 1 of transform: the fields of the DASRecord built from the input,
\* which is a DASRecord, a dict with 'fields', or a flat dict
record_fields(rec) ==
  CASE rec.t = "DASRecord" -> rec.fields.items
    [] DictHas(rec.items, "fields") -> DictGet(rec.items, "fields", None).items
    [] OTHER -> SelectSeq(rec.items, LAMBDA kv : kv[1] \notin EnvelopeKeys)

\* NormalizeCoriolixTransform.transform(record): the fields of the record
\* returned, or the exception that escapes
Normalize_transform(self, rec) ==
  LET fields == record_fields(rec) IN
  IF fields = <<>> THEN Return(Dict(fields))
  ELSE LET numbers == convert_numbers(self, fields, 1) IN
       IF numbers.exc # "none" THEN Exc(numbers.exc)
       ELSE LET derived == derive_lat_lon(self, numbers.value, 1) IN
            IF derived.exc # "none" THEN Exc(derived.exc)
            ELSE Return(Dict(derived.value))

\* field values, directions and records given to the normalizer
ValueTexts == Seqs(ValueAlphabet, MaxValueLen)

\* texts, and values that are numbers already; 2156.8986 is the coordinate
\* of the docstring of _nmea_to_decimal
FieldValues ==
  {Str(s) : s \in ValueTexts}
  \cup {Rational(11, 2), PyInt(2156), Rational(21568986, 10000), PyInt(0)}

Directions == {Str(<<"S">>), Str(<<"s">>), Str(<<"N">>)}

FieldMaps ==
  {<< <<"v", v>> >> : v \in FieldValues}
  \cup {<< <<"v", v>>, <<"d", d>> >> : v \in FieldValues, d \in Directions}
  \cup {<<>>} \cup {<< <<"d", d>> >> : d \in Directions}

NormalizeRecords ==
  {DASRecord(None, None, None, Dict(f), None) : f \in FieldMaps}
  \cup {Dict(<< <<"fields", Dict(f)>> >>) : f \in FieldMaps}
  \cup {Dict(<< <<"data_id", SensorId>> >> \o f) : f \in FieldMaps}

LatLonMaps ==
  {None,
   Dict(<< <<"lat", <<"v", "d">> >> >>),
   Dict(<< <<"v", <<"v", "d">> >> >>),
   Dict(<< <<"lat", <<"v", "d">> >>, <<"lon", <<"v", "d">> >> >>)}

SkipLists == {None, List(<<"v">>), List(<<"d">>)}

\* NormalizeCoriolixTransform(lat_lon_map=..., skip_fields=...)
ConstructNormalize ==
  /\ pc = "start"
  /\ \E lat_lon_map \in LatLonMaps, skip_fields \in SkipLists :
       norm' = Normalize_init(lat_lon_map, skip_fields)
  /\ pc' = "norm_constructed"
  /\ UNCHANGED <<ctor, parser, ctor_exc, input, clock, tz, result, raised>>
  /\ UNCHANGED <<nfields, nresult, nraised, nagain>>
  /\ UNCHANGED kmbVars
  /\ UNCHANGED sharedVars
  /\ UNCHANGED mapperVars

\* normalize.transform(record)
NormalizeTransform ==
  /\ pc = "norm_constructed"
  /\ \E rec \in NormalizeRecords :
       LET out == Normalize_transform(norm, rec) IN
       /\ nfields' = rec
       /\ nresult' = out.value
       /\ nraised' = out.exc
  /\ pc' = "norm_returned"
  /\ UNCHANGED <<ctor, parser, ctor_exc, input, clock, tz, result, raised, norm>>
  /\ UNCHANGED nagain
  /\ UNCHANGED kmbVars
  /\ UNCHANGED sharedVars
  /\ UNCHANGED mapperVars

\* normalize.transform(record) called once more, with the DASRecord the
\* first call returned
NormalizeAgain ==
  /\ pc = "norm_returned"
  /\ nraised = "none"
  /\ nagain' = Normalize_transform(norm, DASRecord(None, None, None, nresult, None))
  /\ pc' = "norm_again"
  /\ UNCHANGED <<ctor, parser, ctor_exc, input, clock, tz, result, raised>>
  /\ UNCHANGED <<norm, nfields, nresult, nraised>>
  /\ UNCHANGED kmbVars
  /\ UNCHANGED sharedVars
  /\ UNCHANGED mapperVars

NextNormalize == ConstructNormalize \/ NormalizeTransform \/ NormalizeAgain

SpecNormalize == Init /\ [][NextNormalize]_vars

----------------------------------------------------------------------------
(* Bytes, bits and the struct layout of the #KMB datagram *)

\* a bytes object is the sequence of its bytes, each in 0..255
BytesOf(b) == [t |-> "bytes", b |-> b]

RECURSIVE Pow2(_)
Pow2(n) == IF n = 0 THEN 1 ELSE 2 * Pow2(n - 1)

\* the width-bit big-endian binary numeral of n, and back
RECURSIVE bits_of(_, _)
bits_of(n, width) ==
  IF width = 0 THEN <<>> ELSE Append(bits_of(n \div 2, width - 1), n % 2)

RECURSIVE int_of(_)
int_of(bits) ==
  IF bits = <<>> THEN 0
  ELSE 2 * int_of(SubSeq(bits, 1, Len(bits) - 1)) + bits[Len(bits)]

RECURSIVE bytes_of_bits(_)
bytes_of_bits(bits) ==
  IF bits = <<>> THEN <<>>
  ELSE <<int_of(SubSeq(bits, 1, 8))>> \o bytes_of_bits(SubSeq(bits, 9, Len(bits)))

RECURSIVE bits_of_bytes(_)
bits_of_bytes(b) ==
  IF b = <<>> THEN <<>> ELSE bits_of(Head(b), 8) \o bits_of_bytes(Tail(b))

\* the bits up to the last 1
strip_zeros(bits) ==
  LET ones == {i \in 1..Len(bits) : bits[i] = 1} IN
  IF ones = {} THEN <<>>
  ELSE SubSeq(bits, 1, CHOOSE i \in ones : \A j \in ones : j <= i)

\* the bit pattern read as an unsigned number, plus one, at the same width
RECURSIVE increment(_)
increment(bits) ==
  IF bits = <<>> THEN <<>>
  ELSE IF bits[Len(bits)] = 0
  THEN [bits EXCEPT ![Len(bits)] = 1]
  ELSE Append(increment(SubSeq(bits, 1, Len(bits) - 1)), 0)

\* floor(log2(a/d)) for a, d > 0
RECURSIVE Log2Floor(_, _)
Log2Floor(a, d) ==
  IF a < d THEN Log2Floor(2 * a, d) - 1
  ELSE IF a >= 2 * d THEN Log2Floor(a, 2 * d) + 1
  ELSE 0

\* the first n bits of the binary fraction rem/den (0 <= rem < den), and the
\* remainder left after them
RECURSIVE fraction_bits(_, _, _)
fraction_bits(rem, den, n) ==
  IF n = 0 THEN [bits |-> <<>>, rem |-> rem]
  ELSE IF rem = 0 THEN [bits |-> [i \in 1..n |-> 0], rem |-> 0]
  ELSE LET bit == IF 2 * rem >= den THEN 1 ELSE 0
           rest == fraction_bits(2 * rem - bit * den, den, n - 1)
       IN [bits |-> <<bit>> \o rest.bits, rem |-> rest.rem]

\* struct.pack of one float in IEEE 754 binary format with ebits exponent
\* bits and fbits fraction bits, big-endian ('>d' is 11/52, '>f' is 8/23):
\* the nearest representable value, ties to the even fraction
ieee_pack(x, ebits, fbits) ==
  IF x.num = 0 THEN bytes_of_bits([i \in 1..(1 + ebits + fbits) |-> 0])
  ELSE LET a == Abs(x.num)
           e == Log2Floor(a, x.den)
           \* a / den = (n0 / d0) * 2^e  with  1 <= n0/d0 < 2
           n0 == IF e >= 0 THEN a ELSE a * Pow2(-e)
           d0 == IF e >= 0 THEN x.den * Pow2(e) ELSE x.den
           frac == fraction_bits(n0 - d0, d0, fbits)
           biased == bits_of(e + Pow2(ebits - 1) - 1, ebits)
           exact == biased \o frac.bits
           up == \/ 2 * frac.rem > d0
                 \/ 2 * frac.rem = d0 /\ exact[Len(exact)] = 1
       IN bytes_of_bits(<<IF x.num < 0 THEN 1 ELSE 0>>
                        \o (IF up THEN increment(exact) ELSE exact))

\* the largest number of bits of a numerator or denominator held as a number
MaxBits == 29

\* struct.unpack of one float in that format.  A value too large or too
\* small to be written as a ratio of numbers of MaxBits bits is held as its
\* bit pattern.
ieee_unpack(b, ebits, fbits) ==
  LET bits == bits_of_bytes(b)
      sign == IF bits[1] = 1 THEN -1 ELSE 1
      biased == int_of(SubSeq(bits, 2, 1 + ebits))
      fraction == SubSeq(bits, 2 + ebits, 1 + ebits + fbits)
      \* 1.fraction, or 0.fraction for a subnormal, without trailing zeros
      lead == IF biased = 0 THEN 0 ELSE 1
      digits == strip_zeros(<<lead>> \o fraction)
      \* value = int_of(digits) * 2^scale
      scale == (IF biased = 0 THEN 1 ELSE biased) - (Pow2(ebits - 1) - 1)
               - (Len(digits) - 1)
  IN IF biased = Pow2(ebits) - 1
     THEN IF strip_zeros(fraction) = <<>> THEN Inf(sign) ELSE NaN
     ELSE IF digits = <<>> THEN Rational(0, 1)
     ELSE IF Len(digits) > MaxBits THEN [t |-> "float", bits |-> bits]
     ELSE IF scale >= 0 /\ Len(digits) + scale <= MaxBits
     THEN Rational(sign * int_of(digits) * Pow2(scale), 1)
     ELSE IF scale < 0 /\ -scale <= MaxBits
     THEN Rational(sign * int_of(digits), Pow2(-scale))
     ELSE [t |-> "float", bits |-> bits]

\* struct.pack / struct.unpack of an unsigned integer of n bytes, big-endian
pack_uint(v, n) == bytes_of_bits(bits_of(v, 8 * n))
unpack_uint(b) == int_of(bits_of_bytes(b))

\* b'#KMB'
START_ID == <<35, 75, 77, 66>>

\* struct.calcsize('>4sHHIIIddffffff')
STRUCT_SIZE == 60

\* the six single-precision fields, in layout order
FloatFields == <<"ellipsoid_height_m", "roll_deg", "pitch_deg", "heading_deg",
                 "heave_m", "roll_rate_deg_s">>

\* struct.pack('>4sHHIIIddffffff', start_id, length, version, utc_sec,
\* utc_nano, status, lat, lon, height, roll, pitch, heading, heave, roll_rate)
\* where x holds the nine payload values under their field names
struct_pack(start_id, dgm_len, version, utc_sec, utc_nano, x) ==
  start_id \o pack_uint(dgm_len, 2) \o pack_uint(version, 2)
  \o pack_uint(utc_sec, 4) \o pack_uint(utc_nano, 4) \o pack_uint(x.status, 4)
  \o ieee_pack(x.latitude, 11, 52) \o ieee_pack(x.longitude, 11, 52)
  \o ieee_pack(x.ellipsoid_height_m, 8, 23) \o ieee_pack(x.roll_deg, 8, 23)
  \o ieee_pack(x.pitch_deg, 8, 23) \o ieee_pack(x.heading_deg, 8, 23)
  \o ieee_pack(x.heave_m, 8, 23) \o ieee_pack(x.roll_rate_deg_s, 8, 23)

\* struct.unpack with roll and pitch read from each other's offsets
struct_unpack_swapped(b) ==
  [start_id |-> SubSeq(b, 1, 4),
   dgm_len |-> unpack_uint(SubSeq(b, 5, 6)),
   version |-> unpack_uint(SubSeq(b, 7, 8)),
   utc_sec |-> unpack_uint(SubSeq(b, 9, 12)),
   utc_nano |-> unpack_uint(SubSeq(b, 13, 16)),
   status |-> unpack_uint(SubSeq(b, 17, 20)),
   lat |-> ieee_unpack(SubSeq(b, 21, 28), 11, 52),
   lon |-> ieee_unpack(SubSeq(b, 29, 36), 11, 52),
   height |-> ieee_unpack(SubSeq(b, 37, 40), 8, 23),
   roll |-> ieee_unpack(SubSeq(b, 45, 48), 8, 23),
   pitch |-> ieee_unpack(SubSeq(b, 41, 44), 8, 23),
   heading |-> ieee_unpack(SubSeq(b, 49, 52), 8, 23),
   heave |-> ieee_unpack(SubSeq(b, 53, 56), 8, 23),
   roll_rate |-> ieee_unpack(SubSeq(b, 57, 60), 8, 23)]

\* struct.unpack('>4sHHIIIddffffff', b) of exactly 60 bytes
struct_unpack(b) ==
  [start_id |-> SubSeq(b, 1, 4),
   dgm_len |-> unpack_uint(SubSeq(b, 5, 6)),
   version |-> unpack_uint(SubSeq(b, 7, 8)),
   utc_sec |-> unpack_uint(SubSeq(b, 9, 12)),
   utc_nano |-> unpack_uint(SubSeq(b, 13, 16)),
   status |-> unpack_uint(SubSeq(b, 17, 20)),
   lat |-> ieee_unpack(SubSeq(b, 21, 28), 11, 52),
   lon |-> ieee_unpack(SubSeq(b, 29, 36), 11, 52),
   height |-> ieee_unpack(SubSeq(b, 37, 40), 8, 23),
   roll |-> ieee_unpack(SubSeq(b, 41, 44), 8, 23),
   pitch |-> ieee_unpack(SubSeq(b, 45, 48), 8, 23),
   heading |-> ieee_unpack(SubSeq(b, 49, 52), 8, 23),
   heave |-> ieee_unpack(SubSeq(b, 53, 56), 8, 23),
   roll_rate |-> ieee_unpack(SubSeq(b, 57, 60), 8, 23)]

----------------------------------------------------------------------------
(* ParseKongsbergKMBTransform *)

\* the characters of hex text: digits in both cases, a line end, and "z" for
\* any character that is neither
HexChars == <<"0", "1", "2", "3", "4", "5", "6", "7",
              "8", "9", "a", "b", "c", "d", "e", "f">>
UpperHexChars == <<"0", "1", "2", "3", "4", "5", "6", "7",
                   "8", "9", "A", "B", "C", "D", "E", "F">>
Whitespace == {" ", "\n"}

IsHex(c) == \E i \in 1..16 : c \in {HexChars[i], UpperHexChars[i]}
HexValue(c) == (CHOOSE i \in 1..16 : c \in {HexChars[i], UpperHexChars[i]}) - 1

\* bytes.hex(): two lowercase hex digits per byte
hex(b) ==
  [i \in 1..(2 * Len(b)) |->
     IF i % 2 = 1 THEN HexChars[(b[(i + 1) \div 2] \div 16) + 1]
     ELSE HexChars[(b[i \div 2] % 16) + 1]]

\* str.upper() of hex text
hex_upper(s) ==
  [i \in 1..Len(s) |->
     IF IsHex(s[i]) THEN UpperHexChars[HexValue(s[i]) + 1] ELSE s[i]]

\* bytes.fromhex accepts pairs of hex digits with whitespace around them
RECURSIVE hex_ok(_)
hex_ok(s) ==
  IF s = <<>> THEN TRUE
  ELSE IF Head(s) \in Whitespace THEN hex_ok(Tail(s))
  ELSE /\ Len(s) >= 2 /\ IsHex(s[1]) /\ IsHex(s[2])
       /\ hex_ok(SubSeq(s, 3, Len(s)))

RECURSIVE hex_bytes(_)
hex_bytes(s) ==
  IF s = <<>> THEN <<>>
  ELSE IF Head(s) \in Whitespace THEN hex_bytes(Tail(s))
  ELSE <<16 * HexValue(s[1]) + HexValue(s[2])>> \o hex_bytes(SubSeq(s, 3, Len(s)))

VALUE_ERROR_HEX == "ValueError: non-hexadecimal number found in fromhex() arg"

\* record.encode(): the ASCII codes of the characters, in place of fromhex
Ord(c) ==
  IF c = "\n" THEN 10 ELSE IF c = " " THEN 32 ELSE IF ~IsHex(c) THEN 122
  ELSE IF \E i \in 1..16 : c = UpperHexChars[i] /\ i > 10 THEN 55 + HexValue(c)
  ELSE IF HexValue(c) < 10 THEN 48 + HexValue(c) ELSE 87 + HexValue(c)
encode_ascii(s) == Return([i \in 1..Len(s) |-> Ord(s[i])])

\* bytes.fromhex(s)
fromhex(s) == IF hex_ok(s) THEN Return(hex_bytes(s)) ELSE Exc(VALUE_ERROR_HEX)

\* ParseKongsbergKMBTransform(data_id)
KMB_init(data_id) ==
  [data_id |-> data_id, struct_fmt |-> ">4sHHIIIddffffff",
   struct_size |-> STRUCT_SIZE]

\* _calc_timestamp: seconds + nanoseconds / 1e9.  The sum is taken exactly,
\* which is what the float sum gives for the nanoseconds enumerated here.
calc_timestamp(seconds, nanoseconds) ==
  LET part == Rational(nanoseconds, 1000000000) IN
  Rational(seconds * part.den + part.num, part.den)

\* what transform returns, with the numbered steps it went through
\* ("size", "unpack", "validation", "fields", "timestamp")
Decoded(value, steps) == [exc |-> "none", value |-> value, steps |-> steps]

\* lines 69-77 of transform: the bytes to decode, or nothing for an input
\* that is neither bytes nor hex text
to_bytes(record) ==
  IF record.t = "bytes" THEN [ok |-> TRUE, b |-> record.b]
  ELSE IF record.t = "str" /\ fromhex(record.s).exc = "none"
  THEN [ok |-> TRUE, b |-> fromhex(record.s).value]
  ELSE [ok |-> FALSE, b |-> <<>>]

\* steps 4 and 5: the record built from the unpacked values
kmb_record(self, values) ==
  DASRecord(self.data_id,
            calc_timestamp(values.utc_sec, values.utc_nano),
            Str(<<"kmb">>),
            Dict(<< <<"status", PyInt(values.status)>>,
                    <<"latitude", values.lat>>,
                    <<"longitude", values.lon>>,
                    <<"ellipsoid_height_m", values.height>>,
                    <<"roll_deg", values.roll>>,
                    <<"pitch_deg", values.pitch>>,
                    <<"heading_deg", values.heading>>,
                    <<"heave_m", values.heave>>,
                    <<"roll_rate_deg_s", values.roll_rate>> >>),
            None)

\* the offsets at which b'#KMB' starts in b with a whole datagram after it
TagOffsets(b) ==
  {k \in 0..(Len(b) - STRUCT_SIZE) : SubSeq(b, k + 1, k + 4) = START_ID}

\* the decoder, had it searched a misaligned buffer for the tag
KMB_decode_searching(self, b) ==
  IF Len(b) < self.struct_size THEN Decoded(None, <<"size">>)
  ELSE IF TagOffsets(b) = {}
  THEN Decoded(None, <<"size", "unpack", "validation">>)
  ELSE LET k == CHOOSE k \in TagOffsets(b) : \A j \in TagOffsets(b) : k <= j IN
       Decoded(kmb_record(self, struct_unpack(SubSeq(b, k + 1, k + self.struct_size))),
               <<"size", "unpack", "validation", "fields", "timestamp">>)

\* the decoder, had it compared the tag bytes before unpacking
KMB_decode_magic_first(self, b) ==
  IF Len(b) < self.struct_size THEN Decoded(None, <<"size">>)
  ELSE IF SubSeq(b, 1, 4) # START_ID
  THEN Decoded(None, <<"size", "validation">>)
  ELSE Decoded(kmb_record(self, struct_unpack(SubSeq(b, 1, self.struct_size))),
               <<"size", "validation", "unpack", "fields", "timestamp">>)

\* the decoder, had it unpacked the last 60 bytes of the buffer
KMB_decode_tail(self, b) ==
  IF Len(b) < self.struct_size THEN Decoded(None, <<"size">>)
  ELSE LET last == SubSeq(b, Len(b) - self.struct_size + 1, Len(b)) IN
       IF SubSeq(last, 1, 4) # START_ID
       THEN Decoded(None, <<"size", "unpack", "validation">>)
       ELSE Decoded(kmb_record(self, struct_unpack(last)),
                    <<"size", "unpack", "validation", "fields", "timestamp">>)

\* a mutation: a datagram whose declared length is not struct_size is
\* rejected
KMB_decode_checking_length(self, b) ==
  IF Len(b) < self.struct_size THEN Decoded(None, <<"size">>)
  ELSE LET values == struct_unpack(SubSeq(b, 1, self.struct_size)) IN
       IF values.start_id # START_ID \/ values.dgm_len # self.struct_size
       THEN Decoded(None, <<"size", "unpack", "validation">>)
       ELSE Decoded(kmb_record(self, values),
                    <<"size", "unpack", "validation", "fields", "timestamp">>)

\* lines 79-124 of transform.  struct.unpack of exactly struct_size bytes
\* with this layout accepts every byte pattern, so struct.error is not
\* raised.
KMB_decode(self, b) ==
  IF Len(b) < self.struct_size THEN Decoded(None, <<"size">>)
  ELSE LET values == struct_unpack(SubSeq(b, 1, self.struct_size)) IN
       IF values.start_id # START_ID
       THEN Decoded(None, <<"size", "unpack", "validation">>)
       ELSE Decoded(kmb_record(self, values),
                    <<"size", "unpack", "validation", "fields", "timestamp">>)

\* ParseKongsbergKMBTransform.transform(record)
KMB_transform(self, record) ==
  IF to_bytes(record).ok THEN KMB_decode(self, to_bytes(record).b)
  ELSE Decoded(None, <<>>)

----------------------------------------------------------------------------
(* generate_data and the ParseKongsbergKMBTransform state machine *)

\* longest run of bytes enumerated after a datagram
MaxTrail == 2

\* the nine payload values in layout order, under their field names
Payload(v) ==
  [status |-> v[1], latitude |-> v[2], longitude |-> v[3],
   ellipsoid_height_m |-> v[4], roll_deg |-> v[5], pitch_deg |-> v[6],
   heading_deg |-> v[7], heave_m |-> v[8], roll_rate_deg_s |-> v[9]]

\* The values generate_data computes for packet i.  For i = 0 they are 45.0,
\* -125.0, 10.0, 0.0, 2.0, 180.0, 0.0, 0.5.  For i > 0 they are doubles with
\* full 53-bit significands (45.00001, 10.0 + sin(0.1), ...); in their place
\* stand doubles near them whose significands need 24 to 26 bits, one more
\* than single precision holds: exact in 'd', exact or rounded in 'f'.
SimulatedSamples ==
  {Payload(<<0, Rational(45, 1), Rational(-125, 1), Rational(10, 1), Rational(0, 1),
             Rational(2, 1), Rational(180, 1), Rational(0, 1), Rational(1, 2)>>),
   Payload(<<0,
           Rational(45 * 524288 + 1, 524288),       \* 45 + 2^-19
           Rational(-125 * 262144 + 1, 262144),     \* -125 + 2^-18
           Rational(10 * 2097152 + 1, 2097152),     \* 10 + 2^-21
           Rational(33554433, 134217728),           \* 1/4 + 2^-27
           Rational(16777215, 8388608),             \* 2 - 2^-23
           Rational(180 * 131072 + 3, 131072),      \* 180 + 3 * 2^-17
           Rational(16777217, 134217728),           \* 1/8 + 2^-27
           Rational(33554435, 67108864)>>)}         \* 1/2 + 3 * 2^-26

\* int(time.time()) and the nanoseconds of its fraction
UtcSeconds == {1000000000}
UtcNanos == {0, 500000000}

\* struct.pack(...) of generate_data: tag '#KMB', length 60, version 1
generate_packet(utc_sec, utc_nano, x) ==
  struct_pack(START_ID, STRUCT_SIZE, 1, utc_sec, utc_nano, x)

\* Buffers that reach the decoder in place of datagram p: p itself, p cut
\* short, p followed by more bytes, p after a stray byte, p under another
\* tag (whole and cut short), p declaring another length and version
TrailBytes == {0, 35}
Trails == Seqs(TrailBytes, MaxTrail) \ {<<>>}
OtherTags == {<<35, 75, 77, 88>>, <<0, 0, 0, 0>>}

Buffers(p) ==
  {p, SubSeq(p, 1, 0), SubSeq(p, 1, 4), SubSeq(p, 1, STRUCT_SIZE - 1)}
  \cup {p \o t : t \in Trails}
  \cup {<<0>> \o p}
  \cup {tag \o SubSeq(p, 5, Len(p)) : tag \in OtherTags}
  \cup {tag \o SubSeq(p, 5, STRUCT_SIZE - 1) : tag \in OtherTags}
  \cup {SubSeq(p, 1, 4) \o <<0, 7, 0, 2>> \o SubSeq(p, 9, Len(p))}

\* The records given to transform: each buffer as bytes (the UDP path) and
\* as the hex text generate_data prints; hex text with a line end, in upper
\* case, with a digit missing, with a character that is no hex digit; and
\* values that are neither bytes nor text
KMBRecords(p) ==
  {BytesOf(b) : b \in Buffers(p)}
  \cup {Str(hex(b)) : b \in Buffers(p)}
  \cup {Str(hex(p) \o <<"\n">>), Str(hex_upper(hex(p))),
        Str(SubSeq(hex(p), 1, 2 * Len(p) - 1)),
        Str(hex(SubSeq(p, 1, 4)) \o <<"z", "z">> \o hex(SubSeq(p, 6, Len(p))))}
  \cup {PyInt(5), Rational(7, 2)}

KMBDataIds == {Str(<<"seapath_kmb">>), SensorId}

\* ParseKongsbergKMBTransform(data_id=...)
ConstructKMB ==
  /\ pc = "start"
  /\ \E data_id \in KMBDataIds : kmb' = KMB_init(data_id)
  /\ pc' = "kmb_constructed"
  /\ UNCHANGED <<ksample, krecord, kresult, kraised, ksteps, kother>>
  /\ UNCHANGED <<ctor, parser, ctor_exc, input, clock, tz, result, raised>>
  /\ UNCHANGED normVars
  /\ UNCHANGED sharedVars
  /\ UNCHANGED mapperVars

\* one iteration of the loop of generate_data
GenerateData ==
  /\ pc = "kmb_constructed"
  /\ \E x \in SimulatedSamples, utc_sec \in UtcSeconds, utc_nano \in UtcNanos :
       ksample' = [x |-> x, utc_sec |-> utc_sec, utc_nano |-> utc_nano,
                   packet |-> generate_packet(utc_sec, utc_nano, x)]
  /\ pc' = "kmb_generated"
  /\ UNCHANGED <<kmb, krecord, kresult, kraised, ksteps, kother>>
  /\ UNCHANGED <<ctor, parser, ctor_exc, input, clock, tz, result, raised>>
  /\ UNCHANGED normVars
  /\ UNCHANGED sharedVars
  /\ UNCHANGED mapperVars

\* kmb.transform(record)
KMBTransform ==
  /\ pc = "kmb_generated"
  /\ \E record \in KMBRecords(ksample.packet) :
       LET out == KMB_transform(kmb, record) IN
       /\ krecord' = record
       /\ kresult' = out.value
       /\ kraised' = out.exc
       /\ ksteps' = out.steps
  /\ pc' = "kmb_returned"
  /\ UNCHANGED <<kmb, ksample, kother>>
  /\ UNCHANGED <<ctor, parser, ctor_exc, input, clock, tz, result, raised>>
  /\ UNCHANGED normVars
  /\ UNCHANGED sharedVars
  /\ UNCHANGED mapperVars

\* bytes 4 to 7 of a datagram: declared length and version, as generate_data
\* writes them and otherwise
Headers == {<<0, 60, 0, 1>>, <<0, 7, 0, 2>>, <<255, 255, 255, 255>>}

\* b with bytes 4 to 7 replaced by header
with_header(b, header) == SubSeq(b, 1, 4) \o header \o SubSeq(b, 9, Len(b))

\* kmb.transform(record) called once more, with the bytes of the last call
\* under another declared length and version
KMBTransformOther ==
  /\ pc = "kmb_returned"
  /\ krecord.t = "bytes"
  /\ Len(krecord.b) >= 8
  /\ \E header \in Headers :
       LET record == BytesOf(with_header(krecord.b, header))
           out == KMB_transform(kmb, record)
       IN kother' = [record |-> record, value |-> out.value, exc |-> out.exc]
  /\ pc' = "kmb_compared"
  /\ UNCHANGED <<kmb, ksample, krecord, kresult, kraised, ksteps>>
  /\ UNCHANGED <<ctor, parser, ctor_exc, input, clock, tz, result, raised>>
  /\ UNCHANGED normVars
  /\ UNCHANGED sharedVars
  /\ UNCHANGED mapperVars

NextKMB == ConstructKMB \/ GenerateData \/ KMBTransform \/ KMBTransformOther

SpecKMB == Init /\ [][NextKMB]_vars

----------------------------------------------------------------------------
(* Decode calls running concurrently on shared instances *)

Threads == 1..MaxThreads

\* the decode methods and the variable holding the instance each is called on
Decoders == {"parse_record", "kmb_transform", "normalize_transform"}

\* The attributes of self a decode method reads, in the order of the lines
\* that read them.  A call reads each group in a step of its own, so other
\* threads run between the reads.
\*   parse_record: compiled_record_format, quiet (105-110); default_data_id
\*     (123-124); field_patterns, compiled_field_patterns (162-163);
\*     return_das_record, return_json (187, 195)
\*   ParseKongsbergKMBTransform.transform: struct_size (80); struct_fmt
\*     (87); data_id (116)
\*   NormalizeCoriolixTransform.transform: skip_fields (100); lat_lon_map
\*     (106)
Reads(op) ==
  CASE op = "parse_record" ->
         <<{"record_format", "quiet"}, {"default_data_id"},
           {"field_patterns", "compiled_field_patterns"},
           {"return_das_record", "return_json"}>>
    [] op = "kmb_transform" -> <<{"struct_size"}, {"struct_fmt"}, {"data_id"}>>
    [] op = "normalize_transform" -> <<{"skip_fields"}, {"lat_lon_map"}>>

NoFrame == [op |-> "none"]

\* the frame of a call that has just bound its arguments
Frame(op, record, time_time, utcoffset) ==
  [op |-> op, record |-> record, time_time |-> time_time,
   utcoffset |-> utcoffset, at |-> 0, view |-> [a \in {} |-> None],
   overlapped |-> FALSE, returned |-> FALSE, value |-> None, exc |-> "none"]

\* the values of self's attributes a call holds after reading attrs
read_attributes(self, view, attrs) ==
  [a \in DOMAIN view \cup attrs |-> IF a \in attrs THEN self[a] ELSE view[a]]

\* a mutation: the call leaves the record it was given on the instance
instance_after_keeping_record(self, frame) ==
  IF frame.op = "parse_record"
  THEN [self EXCEPT !.default_data_id = frame.record]
  ELSE IF frame.op = "kmb_transform"
  THEN [self EXCEPT !.data_id = frame.record]
  ELSE [self EXCEPT !.skip_fields = {"v", "d"}]

\* the instance after a step of a decode call: none of the three methods
\* assigns an attribute of self or changes a value an attribute holds
instance_after(self, frame) == self

\* what the method computes from the attribute values it read
decode(op, self, record, time_time, utcoffset) ==
  CASE op = "parse_record" -> parse_record(self, record, time_time, utcoffset)
    [] op = "kmb_transform" ->
         LET out == KMB_transform(self, record) IN
         [exc |-> out.exc, value |-> out.value]
    [] op = "normalize_transform" -> Normalize_transform(self, record)

\* configurations of the shared instances
SharedParserKwargs == {Kwargs(None, Keyed(<<PAT_XY, PAT_X>>), SensorId, FALSE, FALSE)}

SharedLatLonMaps == {Dict(<< <<"lat", <<"v", "d">> >> >>)}
SharedSkipLists == {List(<<"d">>)}
SharedDataIds == {SensorId}

\* the arguments of the concurrent calls
SharedRecords(op) ==
  CASE op = "parse_record" ->
         {Str(<<"a", " ", "T", " ", "1">>), Str(<<"1", "$">>)}
    [] op = "kmb_transform" ->
         LET p == generate_packet(1000000000, 0, CHOOSE x \in SimulatedSamples : TRUE)
         IN {BytesOf(p), BytesOf(SubSeq(p, 1, STRUCT_SIZE - 1))}
    [] op = "normalize_transform" ->
         {DASRecord(None, None, None,
                    Dict(<< <<"v", Str(<<"5", "5">>)>>, <<"d", Str(<<"S">>)>> >>),
                    None),
          Dict(<< <<"v", Str(<<"-", "5">>)>> >>)}

\* the loggers are configured: one instance of each decoder, shared by all
\* threads
ConstructShared ==
  /\ pc = "start"
  /\ \E kwargs \in SharedParserKwargs, lat_lon_map \in SharedLatLonMaps,
        skip_fields \in SharedSkipLists, data_id \in SharedDataIds :
       /\ parser' = RegexParser_init(kwargs).self
       /\ norm' = Normalize_init(lat_lon_map, skip_fields)
       /\ kmb' = KMB_init(data_id)
       /\ built' = [parse_record |-> RegexParser_init(kwargs).self,
                    normalize_transform |-> Normalize_init(lat_lon_map, skip_fields),
                    kmb_transform |-> KMB_init(data_id)]
  /\ th' = [t \in Threads |-> NoFrame]
  /\ pc' = "shared"
  /\ UNCHANGED <<ctor, ctor_exc, input, clock, tz, result, raised>>
  /\ UNCHANGED <<nfields, nresult, nraised, nagain>>
  /\ UNCHANGED <<ksample, krecord, kresult, kraised, ksteps, kother>>
  /\ UNCHANGED mapperVars

\* the shared instance a decode method is called on
Instance(op) ==
  CASE op = "parse_record" -> parser
    [] op = "kmb_transform" -> kmb
    [] op = "normalize_transform" -> norm

InCall(t) == th[t].op # "none" /\ ~th[t].returned

SharedUnchanged ==
  /\ UNCHANGED <<pc, ctor, ctor_exc, input, clock, tz, result, raised>>
  /\ UNCHANGED <<nfields, nresult, nraised, nagain>>
  /\ UNCHANGED <<ksample, krecord, kresult, kraised, ksteps, kother>>
  /\ UNCHANGED built
  /\ UNCHANGED mapperVars

\* thread t calls a decode method of a shared instance
EnterCall(t) ==
  /\ pc = "shared"
  /\ th[t].op = "none"
  /\ \E op \in Decoders, time_time \in WallClock, utcoffset \in ParserUtcOffsets :
       \E record \in SharedRecords(op) :
         th' = [th EXCEPT ![t] = Frame(op, record, time_time, utcoffset)]
  /\ UNCHANGED <<parser, norm, kmb>>
  /\ SharedUnchanged

\* thread t runs its call up to the next read of self
StepCall(t) ==
  /\ pc = "shared"
  /\ InCall(t)
  /\ th[t].at < Len(Reads(th[t].op))
  /\ LET frame == th[t]
         self == Instance(frame.op)
         after == instance_after(self, frame)
     IN
     /\ th' = [th EXCEPT ![t] =
                 [frame EXCEPT
                    !.at = frame.at + 1,
                    !.view = read_attributes(self, frame.view,
                                             Reads(frame.op)[frame.at + 1]),
                    !.overlapped = frame.overlapped
                                   \/ \E u \in Threads \ {t} : InCall(u)]]
     /\ parser' = IF frame.op = "parse_record" THEN after ELSE parser
     /\ kmb' = IF frame.op = "kmb_transform" THEN after ELSE kmb
     /\ norm' = IF frame.op = "normalize_transform" THEN after ELSE norm
  /\ SharedUnchanged

\* thread t's call returns
LeaveCall(t) ==
  /\ pc = "shared"
  /\ InCall(t)
  /\ th[t].at = Len(Reads(th[t].op))
  /\ LET frame == th[t]
         out == decode(frame.op, frame.view, frame.record,
                       frame.time_time, frame.utcoffset)
     IN th' = [th EXCEPT ![t] = [frame EXCEPT !.returned = TRUE,
                                              !.value = out.value,
                                              !.exc = out.exc]]
  /\ UNCHANGED <<parser, norm, kmb>>
  /\ SharedUnchanged

NextShared ==
  \/ ConstructShared
  \/ \E t \in Threads : EnterCall(t)
  \/ \E t \in Threads : StepCall(t)
  \/ \E t \in Threads : LeaveCall(t)

SpecShared == Init /\ [][NextShared]_vars

----------------------------------------------------------------------------
(* utils/generate_id_mapping.py: SensorIDMapper *)

\* SensorIDMapper(api_url=None, timeout=3.0): seconds a probe listens
DEFAULT_TIMEOUT == 3

\* SensorIDMapper.__init__: an empty mapping, a free lock, and a sensor
\* configuration that has fetched nothing yet
SensorIDMapper_init(timeout) == [timeout |-> timeout, sensor_cache |-> None]

EmptyMapping == [k \in {} |-> None]

\* what the network does while a probe listens on its port: a datagram
\* arrives, nothing arrives, or the port cannot be bound
Datagram(data) == [t |-> "datagram", data |-> data]
Silence == [t |-> "silence"]
BindFault == [t |-> "fault"]

\* bytes no UTF-8 text contains
InvalidBytes == {"xFF"}

\* data.decode('utf-8', errors='ignore')
decode_ignore(data) == SelectSeq(data, LAMBDA c : c \notin InvalidBytes)

\* str.lstrip()
RECURSIVE lstrip(_)
lstrip(s) == IF s # <<>> /\ Head(s) \in SpaceChars THEN lstrip(Tail(s)) ELSE s

\* str.strip()
strip(s) == lstrip(rstrip(s))

\* (\w+): the longest run of word characters s starts with
RECURSIVE word_run(_)
word_run(s) ==
  IF s # <<>> /\ Head(s) \in WordChars THEN <<Head(s)>> \o word_run(Tail(s))
  ELSE <<>>

\* DATA_ID_REGEX.match(decoded), pattern ^\s*(\w+): group 1, the word after
\* the leading whitespace, or None where there is none
DATA_ID_REGEX_match(decoded) ==
  LET group1 == word_run(lstrip(decoded))
  IN IF group1 = <<>> THEN None ELSE Str(group1)

\* a mutation: no timeout is set on the socket
recvfrom_blocking(timeout, arrival) ==
  IF arrival.t = "datagram"
  THEN [done |-> TRUE, exc |-> "none", data |-> arrival.data]
  ELSE IF arrival.t = "fault"
  THEN [done |-> TRUE, exc |-> "OSError", data |-> <<>>]
  ELSE [done |-> FALSE, exc |-> "none", data |-> <<>>]

\* lines 47-54: sock.settimeout(self.timeout), bind and recvfrom.  The
\* call ends with the datagram, with OSError where the port cannot be
\* bound, and, the timeout being a number, with socket.timeout once that
\* long has passed without a datagram.
recvfrom(timeout, arrival) ==
  IF arrival.t = "datagram"
  THEN [done |-> TRUE, exc |-> "none", data |-> arrival.data]
  ELSE IF arrival.t = "fault"
  THEN [done |-> TRUE, exc |-> "OSError", data |-> <<>>]
  ELSE IF timeout # None
  THEN [done |-> TRUE, exc |-> "socket.timeout", data |-> <<>>]
  ELSE [done |-> FALSE, exc |-> "none", data |-> <<>>]

\* lines 49-74 up to the lock: the identifier the probe found, or None
\* after a timeout, an error or data without a leading word
found_id(received) ==
  IF received.exc # "none" THEN None
  ELSE DATA_ID_REGEX_match(strip(decode_ignore(received.data)))

\* str.lower() of the letters used here
lower(c) ==
  CASE c = "T" -> "t" [] c = "R" -> "r" [] c = "U" -> "u" [] c = "E" -> "e"
    [] OTHER -> c

str_lower(s) == [i \in 1..Len(s) |-> lower(s[i])]

\* str(val) for a str or a bool
str_of(val) ==
  IF val.t = "str" THEN val.s
  ELSE IF val.b THEN <<"T", "r", "u", "e">> ELSE <<"F", "a", "l", "s", "e">>

\* lines 98-112: the sensor passes the checks that precede the probe
eligible_with_disabled(s) ==
  /\ s.t = "dict"
  /\ Truthy(DictGet(s.items, "transmit_port", None))
  /\ Truthy(DictGet(s.items, "sensor_id", None))

eligible(s) ==
  /\ s.t = "dict"
  /\ LET val == DictGet(s.items, "enabled", None) IN
     /\ val.t \in {"str", "bool"}
     /\ str_lower(str_of(val)) = <<"t", "r", "u", "e">>
  /\ Truthy(DictGet(s.items, "transmit_port", None))
  /\ Truthy(DictGet(s.items, "sensor_id", None))

\* the frame of a probe thread that has just been started
Probe(sensor_id, port, arrival) ==
  [sensor_id |-> sensor_id, port |-> port, arrival |-> arrival,
   pc |-> "listen", found |-> None]

NoProbe == [pc |-> "none"]

\* a mutation: the lock is taken whether or not it is free
can_acquire_always(holder) == TRUE

\* threading.Lock: acquire succeeds only while no thread holds the lock
can_acquire(holder) == holder = 0

\* self.mapping[sensor_id] = found_id
mapping_set(m, k, v) ==
  [x \in DOMAIN m \cup {k} |-> IF x = k THEN v ELSE m[x]]

\* a mutation: each scan starts from an empty mapping
mapping_at_scan_start_cleared(m) == EmptyMapping

\* lines 91-95: build_mapping assigns nothing to self.mapping before the
\* probes run
mapping_at_scan_start(m) == m

\* the order of characters in the identifiers used here
CharOrder == <<"a", "b", "c">>
CharRank(c) == CHOOSE i \in DOMAIN CharOrder : CharOrder[i] = c

\* a < b for str
RECURSIVE str_lt(_, _)
str_lt(a, b) ==
  IF b = <<>> THEN FALSE
  ELSE IF a = <<>> THEN TRUE
  ELSE IF Head(a) # Head(b) THEN CharRank(Head(a)) < CharRank(Head(b))
  ELSE str_lt(Tail(a), Tail(b))

\* dict(sorted(self.mapping.items())): the items in ascending order of key
RECURSIVE sorted_items(_)
sorted_items(m) ==
  IF DOMAIN m = {} THEN <<>>
  ELSE LET k == CHOOSE x \in DOMAIN m :
                  \A y \in DOMAIN m \ {x} : str_lt(x.s, y.s)
       IN << <<k, m[k]>> >> \o sorted_items([x \in DOMAIN m \ {k} |-> m[x]])

\* lines 120-121: every started thread has been joined
joined_all(threads, j) == j > Len(threads)

\* the sensors the API lists
IdA == Str(<<"a">>)
IdB == Str(<<"b">>)
IdC == Str(<<"c">>)

SensorDict(enabled, transmit_port, sensor_id) ==
  Dict(<< <<"enabled", enabled>>, <<"transmit_port", transmit_port>>,
          <<"sensor_id", sensor_id>> >>)

\* two sensors that are probed, and entries the checks pass over: disabled,
\* enabled given as a number, without a port, without an identifier, not
\* a dict
SensorEntries ==
  {SensorDict(PyBool(TRUE), PyInt(5001), IdA),
   SensorDict(Str(<<"T", "r", "u", "e">>), PyInt(5002), IdB),
   SensorDict(PyBool(FALSE), PyInt(5003), IdC),
   SensorDict(PyInt(1), PyInt(5003), IdC),
   SensorDict(PyBool(TRUE), PyInt(0), IdC),
   SensorDict(PyBool(TRUE), PyInt(5003), None),
   Str(<<"a">>)}

SensorLists == Seqs(SensorEntries, MaxSensors)

\* datagrams: a record of sensor "a"; a record after stray bytes and
\* whitespace, with a line end; data that starts with no word
Datagrams ==
  {<<"a", " ", "$">>, <<" ", "xFF", "1", "a", " ">>, <<"$", "a">>}

Arrivals == {Datagram(d) : d \in Datagrams} \cup {Silence, BindFault}

MapperUnchanged ==
  /\ UNCHANGED <<ctor, parser, ctor_exc, input, clock, tz, result, raised>>
  /\ UNCHANGED normVars
  /\ UNCHANGED kmbVars
  /\ UNCHANGED sharedVars

\* mapper = SensorIDMapper()
ConstructMapper ==
  /\ pc = "start"
  /\ mapper' = SensorIDMapper_init(Float(DEFAULT_TIMEOUT))
  /\ mapping' = EmptyMapping
  /\ lock' = 0
  /\ scan' = [pc |-> "idle"]
  /\ probe' = [i \in 1..MaxSensors |-> NoProbe]
  /\ before' = EmptyMapping
  /\ pc' = "mapper"
  /\ MapperUnchanged

\* mapper.build_mapping() up to the loop: _fetch_all_sensors returns the
\* cached list, or fetches it; a fetch that fails gives [] and caches nothing
BuildMapping ==
  /\ pc = "mapper"
  /\ scan.pc \in {"idle", "returned"}
  /\ \E fetched \in IF mapper.sensor_cache # None THEN {mapper.sensor_cache}
                    ELSE {List(l) : l \in SensorLists} \cup {None} :
       LET all_sensors == IF fetched = None THEN <<>> ELSE fetched.items IN
       /\ mapper' = [mapper EXCEPT !.sensor_cache = fetched]
       /\ scan' = [pc |-> "spawn", all_sensors |-> all_sensors, i |-> 1,
                   threads |-> <<>>, j |-> 1, value |-> None]
  /\ mapping' = mapping_at_scan_start(mapping)
  /\ before' = mapping
  /\ probe' = [i \in 1..MaxSensors |-> NoProbe]
  /\ UNCHANGED <<pc, lock>>
  /\ MapperUnchanged

\* one iteration of the loop of lines 97-117: a thread is started for a
\* sensor that passes the checks
SpawnNext ==
  /\ pc = "mapper"
  /\ scan.pc = "spawn"
  /\ scan.i <= Len(scan.all_sensors)
  /\ LET s == scan.all_sensors[scan.i] IN
     IF eligible(s)
     THEN /\ \E arrival \in Arrivals :
               probe' = [probe EXCEPT ![scan.i] =
                           Probe(DictGet(s.items, "sensor_id", None),
                                 DictGet(s.items, "transmit_port", None),
                                 arrival)]
          /\ scan' = [scan EXCEPT !.i = scan.i + 1,
                                  !.threads = Append(scan.threads, scan.i)]
     ELSE /\ scan' = [scan EXCEPT !.i = scan.i + 1]
          /\ UNCHANGED probe
  /\ UNCHANGED <<pc, mapper, mapping, lock, before>>
  /\ MapperUnchanged

\* the loop has ended
SpawnDone ==
  /\ pc = "mapper"
  /\ scan.pc = "spawn"
  /\ scan.i > Len(scan.all_sensors)
  /\ scan' = [scan EXCEPT !.pc = "join"]
  /\ UNCHANGED <<pc, mapper, mapping, lock, probe, before>>
  /\ MapperUnchanged

\* t.join() returns for the next thread of the list, which has ended
JoinNext ==
  /\ pc = "mapper"
  /\ scan.pc = "join"
  /\ ~joined_all(scan.threads, scan.j)
  /\ probe[scan.threads[scan.j]].pc = "done"
  /\ scan' = [scan EXCEPT !.j = scan.j + 1]
  /\ UNCHANGED <<pc, mapper, mapping, lock, probe, before>>
  /\ MapperUnchanged

\* lines 123-128: build_mapping returns the sorted mapping
ReturnMapping ==
  /\ pc = "mapper"
  /\ scan.pc = "join"
  /\ joined_all(scan.threads, scan.j)
  /\ scan' = [scan EXCEPT !.pc = "returned", !.value = sorted_items(mapping)]
  /\ UNCHANGED <<pc, mapper, mapping, lock, probe, before>>
  /\ MapperUnchanged

\* _probe_port up to the lock: the socket is opened, the probe listens, and
\* without an identifier the socket is closed and the thread ends
Listen(i) ==
  /\ pc = "mapper"
  /\ probe[i].pc = "listen"
  /\ LET received == recvfrom(mapper.timeout, probe[i].arrival) IN
     /\ received.done
     /\ probe' = [probe EXCEPT ![i] =
                    [@ EXCEPT !.found = found_id(received),
                              !.pc = IF found_id(received) = None THEN "done"
                                     ELSE "acquire"]]
  /\ UNCHANGED <<pc, mapper, mapping, lock, scan, before>>
  /\ MapperUnchanged

\* with self.lock: the thread enters once the lock is free
Acquire(i) ==
  /\ pc = "mapper"
  /\ probe[i].pc = "acquire"
  /\ can_acquire(lock)
  /\ lock' = i
  /\ probe' = [probe EXCEPT ![i].pc = "write"]
  /\ UNCHANGED <<pc, mapper, mapping, scan, before>>
  /\ MapperUnchanged

\* line 62 and the end of the with block: the entry is written, the lock is
\* released, the socket is closed and the thread ends
Write(i) ==
  /\ pc = "mapper"
  /\ probe[i].pc = "write"
  /\ mapping' = mapping_set(mapping, probe[i].sensor_id, probe[i].found)
  /\ lock' = 0
  /\ probe' = [probe EXCEPT ![i].pc = "done"]
  /\ UNCHANGED <<pc, mapper, scan, before>>
  /\ MapperUnchanged

ProbeStep(i) == Listen(i) \/ Acquire(i) \/ Write(i)

ScanStep == SpawnNext \/ SpawnDone \/ JoinNext \/ ReturnMapping

NextMapper ==
  \/ ConstructMapper
  \/ BuildMapping
  \/ ScanStep
  \/ \E i \in 1..MaxSensors : ProbeStep(i)

SpecMapper == Init /\ [][NextMapper]_vars

\* The scheduler runs every thread that can take a step: the main thread
\* inside build_mapping and each started probe thread.
SpecMapperFair ==
  /\ SpecMapper
  /\ WF_vars(ScanStep)
  /\ \A i \in 1..MaxSensors : WF_vars(ProbeStep(i))

----------------------------------------------------------------------------
(* What a parse_record call was given and what it returned *)

\* the last call was given one text line
TextCall == pc = "returned" /\ input.t = "str"

\* ... and returned a record (dict, JSON text or DASRecord)
Produced == TextCall /\ raised = "none" /\ result # None

\* the framing match of the line, and the stripped field string
Framed == MatchRecordFormat(parser.record_format, input.s)
FramedOk == Framed # NoMatch
FieldString == rstrip(DictGet(Framed.items, "field_string", None).s)
FramedDataId == DictGet(Framed.items, "data_id", None)
FramedTimestamp == DictGet(Framed.items, "timestamp", None)

\* the configured patterns as (key, compiled pattern) pairs in declared order
Patterns ==
  IF Truthy(parser.field_patterns)
  THEN iterate_patterns(parser.compiled_field_patterns) ELSE <<>>

KeyedSet == Truthy(parser.field_patterns) /\ parser.field_patterns.t = "dict"

\* indices of the patterns re.match accepts on the field string
Matching ==
  {i \in 1..Len(Patterns) :
     /\ FieldString # <<>>
     /\ match(Patterns[i][2], FieldString) \notin {NoMatch, MatchFault}}

FirstMatching == CHOOSE i \in Matching : \A j \in Matching : i <= j

Absent == [t |-> "absent"]

\* the value the returned record holds under key, Absent when it has none
ResultMember(key) ==
  CASE result.t = "DASRecord" -> result[key]
    [] result.t = "dict" -> DictGet(result.items, key, Absent)
    [] result.t = "json" -> DictGet(result.text.members, key, Absent)

\* the returned record holds the Python value v under key
ResultIs(key, v) ==
  IF result.t = "json" THEN ResultMember(key) = JsonValue(v)
  ELSE ResultMember(key) = v

\* the returned record holds no value (or None) under key
ResultLacks(key) == ResultMember(key) \in {Absent, None, JsonValue(None)}

\* the fields map of the returned record is v (no 'fields' member is an
\* empty map)
ResultFieldsAre(v) ==
  IF v = Dict(<<>>)
  THEN ResultMember("fields") \in {Absent, v, JsonValue(v)}
  ELSE ResultIs("fields", v)

----------------------------------------------------------------------------
(* C1 - C9: RegexParser *)

\* C1: with a keyed pattern set, a record in which some pattern matched has
\* as message_type the key of the matching pattern, in dict, JSON and
\* DASRecord output mode.
C1_MessageTypeIsMatchedKey ==
  (Produced /\ KeyedSet /\ Matching # {})
    => ResultIs("message_type", Patterns[FirstMatching][1])

\* C2: when no pattern matches the field string, or the field string is
\* empty, the record has an empty fields map and no message_type.
C2_NoMatchNoMessageType ==
  (Produced /\ Matching = {})
    => ResultFieldsAre(Dict(<<>>)) /\ ResultLacks("message_type")

\* C3: the fields returned are the captures of the earliest pattern in
\* declaration order that matches; a later matching pattern never replaces
\* them, and they are empty when none matches.
C3_FirstMatchWins ==
  Produced =>
    ResultFieldsAre(IF Matching = {} THEN Dict(<<>>)
                    ELSE match(Patterns[FirstMatching][2], FieldString))

\* C3 witness: two patterns match with different captures and the record
\* holds those of the one declared first.
C3_Witness ==
  /\ Produced
  /\ \E i, j \in Matching :
       /\ i < j
       /\ match(Patterns[i][2], FieldString) # match(Patterns[j][2], FieldString)
       /\ ResultIs("fields", match(Patterns[i][2], FieldString))

\* the timestamp a record is meant to carry: the epoch value of the wire
\* timestamp when it parses, the wall clock otherwise
ExpectedTimestamp ==
  IF FramedTimestamp # None /\ StrptimeOk(Spell(FramedTimestamp.s))
  THEN convert_timestamp(Spell(FramedTimestamp.s), tz).value
  ELSE Float(clock)

\* C4: every record carries a numeric timestamp, the parsed epoch value or
\* the wall clock, never null and never the unparsed text.
C4_TimestampNumeric == Produced => ResultIs("timestamp", ExpectedTimestamp)

\* the pattern accepts all of s, from its first to its last character
MatchesWhole(pattern, s) ==
  /\ Len(s) = Len(pattern.items)
  /\ \A i \in 1..Len(s) : s[i] \in pattern.items[i].cls

\* the pattern accepts the first n characters of s; a pattern that ends
\* with $ accepts them only when they are all of s
MatchesFirst(pattern, s, n) ==
  /\ n <= Len(s)
  /\ MatchesWhole(pattern, SubSeq(s, 1, n))
  /\ pattern.dollar => n = Len(s)

\* what the named groups of the pattern capture of s
Captures(pattern, s) ==
  Dict([i \in 1..Len(pattern.items) |-> <<pattern.items[i].group, Str(<<s[i]>>)>>])

FullMatching ==
  {i \in 1..Len(Patterns) : MatchesWhole(Patterns[i][2], FieldString)}

StartMatching ==
  {i \in 1..Len(Patterns) :
     \E n \in 1..Len(FieldString) : MatchesFirst(Patterns[i][2], FieldString, n)}

Least(S) == CHOOSE i \in S : \A j \in S : i <= j

\* C5 as claimed: a pattern is selected only when it matches the full
\* stripped field string; one that matches a proper prefix is passed over.
C5_FullMatchOnly ==
  Produced =>
    ResultFieldsAre(IF FullMatching = {} THEN Dict(<<>>)
                    ELSE Captures(Patterns[Least(FullMatching)][2], FieldString))

\* C5 amended: a pattern is selected when it matches at the start of the
\* stripped field string; the match need not reach the end of the field
\* string unless the pattern itself ends with $.
C5_MatchAtStart ==
  Produced =>
    ResultFieldsAre(IF StartMatching = {} THEN Dict(<<>>)
                    ELSE Captures(Patterns[Least(StartMatching)][2], FieldString))

\* C5 witness: the selected pattern matched a proper prefix only, and no
\* configured pattern matches the full field string.
C5_Witness ==
  /\ Produced
  /\ StartMatching # {}
  /\ FullMatching = {}
  /\ Len(FieldString) > Len(Patterns[Least(StartMatching)][2].items)
  /\ ResultIs("fields", Captures(Patterns[Least(StartMatching)][2], FieldString))

\* the data_id a record without a framed data_id is meant to carry
FallbackDataId ==
  IF Truthy(parser.default_data_id) THEN parser.default_data_id
  ELSE Str(<<"u", "n", "k", "n", "o", "w", "n">>)

\* C6: with the default framing pattern, a line without a leading data_id
\* and timestamp is framed with the whole stripped line as field_string, the
\* fallback data_id and the wall-clock timestamp.
C6_FieldOnlyLine ==
  (Produced /\ parser.record_format = DEFAULT_RECORD_FORMAT
            /\ PrefixDecomps(input.s) = {})
    => /\ FieldString = rstrip(input.s)
       /\ ResultIs("data_id", FallbackDataId)
       /\ ResultIs("timestamp", Float(clock))

\* C7: a record framed without data_id carries the configured
\* default_data_id, or 'unknown' when none is configured, also when the
\* parser is built by RegexTransform from the generated configuration, whose
\* default_data_id then is the parser's.
C7_DataIdFallback ==
  /\ (pc # "start" /\ ctor.entry = "RegexTransform"
        /\ ctor.kwargs \in GeneratedKwargs)
       => /\ ctor_exc = "none"
          /\ parser.default_data_id = DictGet(ctor.kwargs, "default_data_id", None)
  /\ (Produced /\ FramedDataId = None) => ResultIs("data_id", FallbackDataId)

\* C8: parse_record raises for no input; an empty or non-text input and a
\* line the framing pattern does not match yield None.
C8_NeverRaises ==
  /\ raised = "none"
  /\ (pc = "returned" /\ input.t # "list" /\ ~Truthy(input)) => result = None
  /\ (pc = "returned" /\ input.t \notin {"str", "list"}) => result = None
  /\ (TextCall /\ ~FramedOk) => result = None

\* the field_patterns argument is neither None, a list nor a mapping
BadPatternSetShape ==
  DictGet(ctor.kwargs, "field_patterns", None).t \notin {"None", "list", "dict"}

\* both output modes are requested
ConflictingModes ==
  /\ Truthy(DictGet(ctor.kwargs, "return_json", PyBool(FALSE)))
  /\ Truthy(DictGet(ctor.kwargs, "return_das_record", PyBool(FALSE)))

\* C9: constructing RegexParser with both output modes, or with a
\* field_patterns value that is neither a list nor a mapping, fails with a
\* configuration error, and no parse_record call raises one.
C9_ConfigFaultsAtConstruction ==
  /\ (pc # "start" /\ ctor.entry = "RegexParser"
        /\ (ConflictingModes \/ BadPatternSetShape))
       => ctor_exc \in {ONLY_ONE_MODE, BAD_FIELD_PATTERNS}
  /\ raised \notin {ONLY_ONE_MODE, BAD_FIELD_PATTERNS}

----------------------------------------------------------------------------
(* C10: NormalizeCoriolixTransform *)

\* C10: transform raises for no fields map; whatever text a value holds, a
\* record is returned.
C10_NormalizeNeverRaises ==
  pc = "norm_returned" => nraised = "none" /\ nresult.t = "dict"

----------------------------------------------------------------------------
(* What a NormalizeCoriolixTransform.transform call was given and returned *)

\* the last call was NormalizeCoriolixTransform.transform
NormCall == pc = "norm_returned"

\* ... and it returned a record
NormReturned == NormCall /\ nraised = "none"

\* the fields map of the record given, and of the record returned
InFields == record_fields(nfields)
OutFields == nresult.items

\* an optional single leading minus followed only by digits
IsIntegerText(s) == Unsigned(s) # <<>> /\ IsDecimal(Unsigned(s))

\* the value numeric coercion is to give: an integer, else a float, else the
\* value itself
Coerced(v) ==
  IF v.t # "str" THEN v
  ELSE IF IsIntegerText(v.s) THEN PyInt(Sign(v.s) * DigitsValue(Unsigned(v.s)))
  ELSE IF float_of_str(v.s).exc = "none" THEN float_of_str(v.s).value
  ELSE v

\* the value of input field k after the coercion step
Kept(k, v) == IF k \in norm.skip_fields THEN v ELSE Coerced(v)

CoercedFields == [i \in 1..Len(InFields) |->
                    <<InFields[i][1], Kept(InFields[i][1], InFields[i][2])>>]

\* the configured pairs, their result names and their raw field names
Pairs == 1..Len(norm.lat_lon_map)
FinalName(i) == norm.lat_lon_map[i][1]
RawValKey(i) == norm.lat_lon_map[i][2][1]
RawDirKey(i) == norm.lat_lon_map[i][2][2]
ResultNames == {FinalName(i) : i \in Pairs}
RawKeys == {RawValKey(i) : i \in Pairs} \cup {RawDirKey(i) : i \in Pairs}

\* the value and direction pair i reads
PairValue(i) == DictGet(CoercedFields, RawValKey(i), None)
PairDirection(i) == DictGet(CoercedFields, RawDirKey(i), None)

\* pair i has a value field holding a finite number (or the text of one)
PairNumeric(i) ==
  /\ DictHas(InFields, RawValKey(i))
  /\ float_of(PairValue(i)).exc = "none"
  /\ IsFinite(float_of(PairValue(i)).value)

\* the direction is S or W in either case
IsSouthWest(d) ==
  d.t = "str" /\ d.s \in {<<"S">>, <<"s">>, <<"W">>, <<"w">>}

\* floor(value/100) + (value mod 100)/60 for value = num/den, negated for S, W
DecimalDegrees(value, direction) ==
  LET num == value.num
      den == value.den
      degrees == CHOOSE q \in -10..22 :
                   100 * q * den <= num /\ num < 100 * (q + 1) * den
      sign == IF IsSouthWest(direction) THEN -1 ELSE 1
  IN Rational(sign * (60 * den * degrees + (num - 100 * den * degrees)), 60 * den)

----------------------------------------------------------------------------
(* C11 - C15: NormalizeCoriolixTransform *)

\* C11: with no coordinate pairs configured, transform returns a record in
\* which every field outside the skip list holds the integer its text spells
\* when the text is one optional minus and digits, else the float its text
\* spells, else the text itself; a value that is no text is unchanged.
C11_NumericCoercion ==
  (NormCall /\ norm.lat_lon_map = <<>>)
    => /\ nraised = "none"
       /\ \A i \in 1..Len(InFields) :
            InFields[i][1] \notin norm.skip_fields
              => DictGet(OutFields, InFields[i][1], None) = Coerced(InFields[i][2])

\* C12: in the record transform returns, every skip-listed field that held a
\* text still holds that text, whatever pairs are configured.
C12_SkipFieldsStayStrings ==
  NormReturned
    => \A i \in 1..Len(InFields) :
         (InFields[i][1] \in norm.skip_fields /\ InFields[i][2].t = "str")
           => DictGet(OutFields, InFields[i][1], None) = InFields[i][2]

\* C13 as written: in the record transform returns every input key is
\* present, and every raw value and direction field of a configured pair
\* holds what the coercion step left in it, never the derived value.
C13_Additive ==
  NormReturned
    => \A i \in 1..Len(InFields) :
         /\ DictHas(OutFields, InFields[i][1])
         /\ InFields[i][1] \in RawKeys
              => DictGet(OutFields, InFields[i][1], None)
                   = Kept(InFields[i][1], InFields[i][2])

\* C13 as amended: every input key is present, and every raw value and
\* direction field that is not itself the result name of a pair holds what
\* the coercion step left in it.
C13_AdditiveUnlessAliased ==
  NormReturned
    => \A i \in 1..Len(InFields) :
         /\ DictHas(OutFields, InFields[i][1])
         /\ (InFields[i][1] \in RawKeys /\ InFields[i][1] \notin ResultNames)
              => DictGet(OutFields, InFields[i][1], None)
                   = Kept(InFields[i][1], InFields[i][2])

\* a derived field was added next to the value and direction it came from
C13_Witness ==
  /\ NormReturned
  /\ \E i \in Pairs :
       /\ FinalName(i) \notin RawKeys
       /\ DictHas(InFields, RawValKey(i)) /\ DictHas(InFields, RawDirKey(i))
       /\ ~DictHas(InFields, FinalName(i))
       /\ DictHas(OutFields, FinalName(i))
       /\ DictHas(OutFields, RawValKey(i)) /\ DictHas(OutFields, RawDirKey(i))

\* every text the coercion step takes for an integer is one
IntegersWellFormed ==
  \A i \in 1..Len(InFields) :
    (InFields[i][1] \notin norm.skip_fields /\ InFields[i][2].t = "str"
       /\ isdigit(lstrip_minus(InFields[i][2].s)))
      => IsIntegerText(InFields[i][2].s)

\* C14: when every configured pair has its value field missing, or holding
\* something that is no finite number, transform raises nothing and returns
\* exactly the fields the coercion step produced, with no field added
\* (stated for records whose coercion step succeeds).
C14_FailedDerivationSkipped ==
  (NormCall /\ IntegersWellFormed /\ Pairs # {} /\ \A i \in Pairs : ~PairNumeric(i))
    => nraised = "none" /\ OutFields = CoercedFields

----------------------------------------------------------------------------
(* What a ParseKongsbergKMBTransform.transform call was given and returned *)

\* the last call was ParseKongsbergKMBTransform.transform
KMBCall == pc = "kmb_returned"

\* ... and it was given a bytes object
BytesCall == KMBCall /\ krecord.t = "bytes"

\* ... of at least 60 bytes
LongEnough == Len(krecord.b) >= STRUCT_SIZE

\* ... that starts with the tag
Tagged == Len(krecord.b) >= 4 /\ SubSeq(krecord.b, 1, 4) = START_ID

\* nothing was returned and nothing raised
Rejected == kresult = None /\ kraised = "none"

\* a record was returned
Accepted == kraised = "none" /\ kresult.t = "DASRecord"

\* the call was given the datagram generate_data packed, as the bytes it
\* sends or as the hex text it prints
Simulated ==
  KMBCall /\ krecord \in {BytesOf(ksample.packet), Str(hex(ksample.packet))}

\* field name of the record returned
Field(name) == DictGet(kresult.fields.items, name, None)

\* x = odd * 2^k with odd below 2^24: x has a 24-bit significand
RECURSIVE OddPart(_)
OddPart(n) == IF n # 0 /\ n % 2 = 0 THEN OddPart(n \div 2) ELSE n
SinglePrecision(x) == IsFinite(x) /\ OddPart(Abs(x.num)) < Pow2(24)

\* |r - x| is at most half a unit of the 24th significant bit of x
WithinHalfUlp(r, x) ==
  IF x.num = 0 THEN r = x
  ELSE LET D == IF r.den > x.den THEN r.den ELSE x.den
           diff == Abs(r.num * (D \div r.den) - x.num * (D \div x.den))
           e == Log2Floor(Abs(x.num), x.den)
       IN diff * Pow2(24) <= (IF e >= 0 THEN D * Pow2(e) ELSE D \div Pow2(-e))

----------------------------------------------------------------------------
(* C16 - C20: ParseKongsbergKMBTransform *)

\* C16: a buffer shorter than 60 bytes, and a buffer of 60 bytes or more that
\* does not start with '#KMB', is rejected, also when the tag stands further
\* on in the buffer.
C16_ShortOrUntaggedRejected ==
  (BytesCall /\ (~LongEnough \/ ~Tagged)) => Rejected

\* a 61-byte buffer holding a whole datagram after one stray byte was rejected
C16_Witness ==
  /\ BytesCall /\ LongEnough /\ ~Tagged
  /\ TagOffsets(krecord.b) # {}
  /\ Rejected

\* C17 as written: the steps run in the order length, tag, unpack; a buffer
\* with a wrong tag is rejected before anything is unpacked.
C17_LengthMagicUnpack ==
  BytesCall
    => ksteps = (IF ~LongEnough THEN <<"size">>
                 ELSE IF ~Tagged THEN <<"size", "validation">>
                 ELSE <<"size", "validation", "unpack", "fields", "timestamp">>)

\* C17 as amended: the steps run in the order length, unpack, tag; a short
\* buffer is rejected before anything is unpacked, a buffer with a wrong tag
\* after the unpack and before a record is built.
C17_LengthUnpackMagic ==
  BytesCall
    => /\ ksteps = (IF ~LongEnough THEN <<"size">>
                    ELSE IF ~Tagged THEN <<"size", "unpack", "validation">>
                    ELSE <<"size", "unpack", "validation", "fields", "timestamp">>)
       /\ (~LongEnough \/ ~Tagged) => Rejected

\* a buffer of 60 bytes with a wrong tag was unpacked, then rejected
C17_Witness ==
  /\ BytesCall /\ LongEnough /\ ~Tagged
  /\ ksteps = <<"size", "unpack", "validation">>
  /\ Rejected

\* C18 as written: decoding the datagram generate_data packed returns each
\* of the nine payload values equal to the value packed.
C18_RoundTrip ==
  Simulated
    => /\ Accepted
       /\ Field("status") = PyInt(ksample.x.status)
       /\ Field("latitude") = ksample.x.latitude
       /\ Field("longitude") = ksample.x.longitude
       /\ \A i \in 1..Len(FloatFields) :
            Field(FloatFields[i]) = ksample.x[FloatFields[i]]

\* C18 as amended: status, latitude and longitude are returned equal to the
\* values packed; each of the six single-precision fields is returned as a
\* value with a 24-bit significand within half a unit of the 24th
\* significant bit of the value packed, so equal to it when it has a 24-bit
\* significand itself.
C18_RoundTripSinglePrecision ==
  Simulated
    => /\ Accepted
       /\ Field("status") = PyInt(ksample.x.status)
       /\ Field("latitude") = ksample.x.latitude
       /\ Field("longitude") = ksample.x.longitude
       /\ \A i \in 1..Len(FloatFields) :
            LET r == Field(FloatFields[i])
                x == ksample.x[FloatFields[i]]
            IN /\ SinglePrecision(r)
               /\ WithinHalfUlp(r, x)
               /\ SinglePrecision(x) => r = x

\* a datagram with values of more than 24 significant bits was decoded: the
\* doubles came back equal, a single-precision field came back rounded
C18_Witness ==
  /\ Simulated /\ Accepted
  /\ ~SinglePrecision(ksample.x.latitude)
  /\ Field("latitude") = ksample.x.latitude
  /\ \E i \in 1..Len(FloatFields) :
       Field(FloatFields[i]) # ksample.x[FloatFields[i]]
  /\ \E i \in 1..Len(FloatFields) :
       /\ ksample.x[FloatFields[i]].den > 1
       /\ Field(FloatFields[i]) = ksample.x[FloatFields[i]]

\* C19: a buffer of 60 bytes or more decodes to what its first 60 bytes
\* decode to, record or rejection.
C19_TrailingBytesIgnored ==
  (BytesCall /\ LongEnough)
    => LET first == KMB_transform(kmb, BytesOf(SubSeq(krecord.b, 1, STRUCT_SIZE))) IN
       kresult = first.value /\ kraised = first.exc

\* a datagram followed by more bytes was decoded to a record
C19_Witness ==
  /\ BytesCall /\ Len(krecord.b) > STRUCT_SIZE
  /\ Accepted

\* C20: the hex text of a buffer decodes to what the buffer decodes to; text
\* that is not hex, and a value that is neither bytes nor text, is rejected
\* without an exception.
C20_HexCarrier ==
  KMBCall
    => /\ \A b \in Buffers(ksample.packet) :
            krecord = Str(hex(b))
              => kraised = "none" /\ kresult = KMB_transform(kmb, BytesOf(b)).value
       /\ (krecord.t = "str" /\ ~hex_ok(krecord.s)) => Rejected
       /\ krecord.t \notin {"bytes", "str"} => Rejected

\* the hex text generate_data prints was decoded to a record
C20_Witness ==
  /\ KMBCall /\ krecord = Str(hex(ksample.packet))
  /\ Accepted
  /\ Field("latitude") = ksample.x.latitude

----------------------------------------------------------------------------
(* convert_timestamp on its own *)

Converted == pc = "converted"

\* s has the layout YYYY-MM-DDTHH:MM:SS.ffffffZ
HasLayout(s) ==
  /\ Len(s) = 27
  /\ \A i \in 1..27 :
       IF i \in {5, 8} THEN s[i] = "-"
       ELSE IF i = 11 THEN s[i] = "T"
       ELSE IF i \in {14, 17} THEN s[i] = ":"
       ELSE IF i = 20 THEN s[i] = "."
       ELSE IF i = 27 THEN s[i] = "Z"
       ELSE IsNumeral(s[i])

Part(s, from, to) == NumeralsValue(SubSeq(s, from, to))

\* s has the layout and names an instant of the calendar
ValidTimestampText(s) ==
  /\ HasLayout(s)
  /\ Part(s, 1, 4) >= 1
  /\ Part(s, 6, 7) \in 1..12
  /\ Part(s, 9, 10) \in 1..days_in_month(Part(s, 1, 4), Part(s, 6, 7))
  /\ Part(s, 12, 13) <= 23
  /\ Part(s, 15, 16) <= 59
  /\ Part(s, 18, 19) <= 59

\* seconds from 1970-01-01T00:00:00Z to the UTC instant s names
UtcEpoch(s) ==
  LET days == ymd2ord(Part(s, 1, 4), Part(s, 6, 7), Part(s, 9, 10))
              - ymd2ord(1970, 1, 1)
      seconds == days * 86400 + Part(s, 12, 13) * 3600
                 + Part(s, 15, 16) * 60 + Part(s, 18, 19)
      micros == Part(s, 21, 26)
      g == GCD(micros, 1000000)
  IN Rational(seconds * (1000000 \div g) + micros \div g, 1000000 \div g)

\* C21: convert_timestamp returns, on every host, the Unix epoch seconds of
\* the UTC instant a valid YYYY-MM-DDTHH:MM:SS.ffffffZ text names, and None
\* for every other text; it never raises.
C21_UtcEpochSeconds ==
  Converted =>
    /\ raised = "none"
    /\ IF ValidTimestampText(input.s) THEN result = UtcEpoch(input.s)
       ELSE result = None

----------------------------------------------------------------------------
(* Concurrent decode calls *)

SharedRun == pc = "shared"

\* what the call of a frame returns when no other call runs: the method
\* applied to the instance as it was constructed
Alone(frame) ==
  decode(frame.op, built[frame.op], frame.record, frame.time_time,
         frame.utcoffset)

----------------------------------------------------------------------------
(* SensorIDMapper: probes, lock and scans *)

MapperRun == pc = "mapper"
Scanning == MapperRun /\ scan.pc \in {"spawn", "join"}
ScanReturned == MapperRun /\ scan.pc = "returned"

Positions == 1..MaxSensors

\* the probe threads the current build_mapping call has started
Started == IF MapperRun /\ scan.pc # "idle"
           THEN {scan.threads[j] : j \in 1..Len(scan.threads)} ELSE {}

InUpdate(i) == probe[i].pc = "write"

\* C23: a probe thread inside the update of the shared mapping holds the
\* lock, and no two probe threads are inside the update at the same time.
C23_WritesUnderLock ==
  MapperRun =>
    /\ \A i \in Positions : InUpdate(i) => lock = i
    /\ \A i, j \in Positions : (InUpdate(i) /\ InUpdate(j)) => i = j

\* one probe is inside the update while another waits for the lock
C23_Witness ==
  /\ MapperRun
  /\ \E i, j \in Positions :
       /\ InUpdate(i) /\ lock = i
       /\ probe[j].pc = "acquire"

\* C24: a build_mapping call that has begun scanning returns, with no step
\* but those of the main thread and of the probe threads themselves, and
\* when it has returned every probe thread it started has ended (so each of
\* them ended by itself: on its datagram, its timeout or its error).
C24_ProbesEndAndScanReturns ==
  /\ Scanning ~> ScanReturned
  /\ [](ScanReturned => \A i \in Started : probe[i].pc = "done")

\* a scan has returned of which one probe heard nothing until its timeout
\* and another received a datagram
C24_Witness ==
  /\ ScanReturned
  /\ \E i, j \in Started :
       /\ probe[i].arrival = Silence /\ probe[i].pc = "done"
       /\ probe[j].arrival.t = "datagram" /\ probe[j].pc = "done"

\* the leading word of a text: what lies between the whitespace the text
\* starts with and the first character after it that is no word character
LeadingWord(text) ==
  LET from == CHOOSE k \in 1..(Len(text) + 1) :
                /\ \A n \in 1..(k - 1) : text[n] \in SpaceChars
                /\ k = Len(text) + 1 \/ text[k] \notin SpaceChars
      to == CHOOSE k \in (from - 1)..Len(text) :
              /\ \A n \in from..k : text[n] \in WordChars
              /\ k = Len(text) \/ text[k + 1] \notin WordChars
  IN SubSeq(text, from, to)

\* the word probe i received, None after a timeout, a fault, or data with
\* no leading word
Word(i) ==
  IF probe[i].arrival.t # "datagram" THEN None
  ELSE LET text == SelectSeq(probe[i].arrival.data, LAMBDA c : c # "xFF")
           w == LeadingWord(text)
       IN IF w = <<>> THEN None ELSE Str(w)

TrueSpellings == {<<"T", "r", "u", "e">>, <<"t", "r", "u", "e">>,
                  <<"T", "R", "U", "E">>}

\* the sensor is enabled and has a transmit_port and a sensor_id
Eligible(s) ==
  /\ s.t = "dict"
  /\ DictGet(s.items, "enabled", None)
       \in {PyBool(TRUE)} \cup {Str(x) : x \in TrueSpellings}
  /\ DictGet(s.items, "transmit_port", None) \notin {None, PyInt(0)}
  /\ DictGet(s.items, "sensor_id", None) \notin {None, Str(<<>>)}

EligiblePositions ==
  {i \in 1..Len(scan.all_sensors) : Eligible(scan.all_sensors[i])}

EligibleIds ==
  {DictGet(scan.all_sensors[i].items, "sensor_id", None) : i \in EligiblePositions}

\* the probes of the scan that were started for sensor_id k and got a word
Finders(k) == {i \in Started : probe[i].sensor_id = k /\ Word(i) # None}

\* the entry of k differs from what it was when the scan began
Changed(k) == k \notin DOMAIN before \/ mapping[k] # before[k]

DistinctIds ==
  \A i, j \in EligiblePositions :
    i # j => DictGet(scan.all_sensors[i].items, "sensor_id", None)
             # DictGet(scan.all_sensors[j].items, "sensor_id", None)

\* the mapping the outcomes of the probes determine
ExpectedMapping ==
  [k \in DOMAIN before \cup {k \in EligibleIds : Finders(k) # {}} |->
     IF Finders(k) # {} THEN Word(CHOOSE i \in Finders(k) : TRUE)
     ELSE before[k]]

\* C29: when build_mapping returns, every entry this scan changed has the
\* sensor_id of an eligible sensor as key and the leading word its probe
\* received as value; probes that got no word add nothing; and with
\* pairwise distinct sensor_ids the returned mapping is the one the probes'
\* outcomes determine, whatever the interleaving.
C29_ScanResult ==
  ScanReturned =>
    /\ Started = EligiblePositions
    /\ scan.value = sorted_items(mapping)
    /\ \A k \in DOMAIN mapping :
         Changed(k) => /\ k \in EligibleIds
                       /\ \E i \in Finders(k) : mapping[k] = Word(i)
    /\ \A k \in EligibleIds : Finders(k) # {} => k \in DOMAIN mapping
    /\ DistinctIds => mapping = ExpectedMapping

\* a scan over two eligible sensors has returned: one probe found a word,
\* the other timed out
C29_Witness ==
  /\ ScanReturned
  /\ DistinctIds
  /\ \E i, j \in Started :
       /\ Word(i) # None /\ Changed(probe[i].sensor_id)
       /\ probe[j].arrival = Silence
       /\ probe[j].sensor_id \notin DOMAIN mapping

\* C30: the mapping is never cleared: while the instance lives every key the
\* mapping had when a scan began is still in it, and the scan returns the
\* earlier value for every key none of its probes found a word for.
C30_NeverCleared ==
  MapperRun =>
    /\ \A k \in DOMAIN before : k \in DOMAIN mapping
    /\ ScanReturned =>
         \A k \in DOMAIN before :
           /\ \E n \in 1..Len(scan.value) : scan.value[n][1] = k
           /\ Finders(k) = {} =>
                \E n \in 1..Len(scan.value) : scan.value[n] = <<k, before[k]>>

\* a later scan in which the probe of a sensor timed out returns the
\* identifier an earlier scan found for it
C30_Witness ==
  /\ ScanReturned
  /\ \E i \in Started :
       /\ probe[i].arrival = Silence
       /\ probe[i].sensor_id \in DOMAIN before
       /\ \E n \in 1..Len(scan.value) :
            scan.value[n] = <<probe[i].sensor_id, before[probe[i].sensor_id]>>

----------------------------------------------------------------------------
(* C25, C26: patterns that raise, and what the fields hold *)

\* indices of the patterns whose match attempt on the field string raises
Faulting ==
  {i \in 1..Len(Patterns) :
     FieldString # <<>> /\ match(Patterns[i][2], FieldString) = MatchFault}

\* C25: a pattern whose match attempt raises is skipped: the record is still
\* produced, its fields are those of the earliest pattern that matches
\* (empty when none does), and its message_type is never the key of a
\* pattern that raised.
C25_FaultSkipped ==
  (Produced /\ Faulting # {}) =>
    /\ ResultFieldsAre(IF Matching = {} THEN Dict(<<>>)
                       ELSE match(Patterns[FirstMatching][2], FieldString))
    /\ \A i \in Faulting :
         KeyedSet => ~ResultIs("message_type", Patterns[i][1])

\* the (name, value) pairs of the fields of the returned record
FieldPairs ==
  LET fields == ResultMember("fields") IN
  IF fields = Absent THEN <<>>
  ELSE IF result.t = "json" THEN fields.members ELSE fields.items

\* the names of the named groups of a compiled pattern
NamedGroups(pattern) == {pattern.items[i].group : i \in 1..Len(pattern.items)}

IsString(v) == IF result.t = "json" THEN v.j = "string" ELSE v.t = "str"

\* C26: the keys of the fields are exactly the named groups of the pattern
\* that matched, and every field value is a string, also for a named group
\* that is optional in the pattern.
C26_FieldsAreGroupStrings ==
  (Produced /\ Matching # {}) =>
    /\ {FieldPairs[n][1] : n \in 1..Len(FieldPairs)}
         = NamedGroups(Patterns[FirstMatching][2])
    /\ \A n \in 1..Len(FieldPairs) : IsString(FieldPairs[n][2])

----------------------------------------------------------------------------
(* C27: NormalizeCoriolixTransform applied to its own output *)

\* transform was called a second time, on the record the first call returned
NormAgain == pc = "norm_again"
AgainFields == nagain.value.items

\* no result name is the name of a value or direction field of any pair
NoAliasing == ResultNames \cap RawKeys = {}

\* pair i stores its result under the name of its own value field, and the
\* first pass derived a value for it
SelfDerived(i) == FinalName(i) = RawValKey(i) /\ PairNumeric(i)

\* what the first and the second pass left under the result name of pair i
FirstDerived(i) == DictGet(OutFields, FinalName(i), None)
SecondDerived(i) == DictGet(AgainFields, FinalName(i), None)

\* C27: with no result name equal to a value or direction field name the
\* second pass returns the fields map of the first; where a result name is
\* its own value field name the second pass changes the derived value.
C27_IdempotentUnlessAliased ==
  NormAgain =>
    /\ NoAliasing => nagain = Return(nresult)
    /\ \A i \in Pairs :
         SelfDerived(i) => nagain.exc = "none" /\ SecondDerived(i) # FirstDerived(i)

\* C27 as the code has it: the derived value is changed by the second pass
\* when its magnitude is at least one degree; a derived 0 stays 0.
C27_IdempotentUnlessAliasedDegree ==
  NormAgain =>
    /\ NoAliasing => nagain = Return(nresult)
    /\ \A i \in Pairs :
         SelfDerived(i) =>
           /\ nagain.exc = "none"
           /\ Abs(FirstDerived(i).num) >= FirstDerived(i).den
                => SecondDerived(i) # FirstDerived(i)
           /\ FirstDerived(i).num = 0 => SecondDerived(i) = FirstDerived(i)

\* 2156.8986 s gave lat = -21.94831 next to its value and direction, and
\* the second pass returned the same fields
C27_Witness ==
  /\ NormAgain
  /\ NoAliasing
  /\ DictGet(InFields, "v", None) = Rational(21568986, 10000)
  /\ DictGet(OutFields, "lat", None) = Rational(-2194831, 100000)
  /\ nagain = Return(nresult)

----------------------------------------------------------------------------
(* C28: the declared length and version of a #KMB datagram *)

\* transform was called on two buffers that differ at most in bytes 4 to 7
KMBCompared == pc = "kmb_compared"

\* both have at least 60 bytes and begin with the tag
TaggedDatagram ==
  Len(krecord.b) >= STRUCT_SIZE /\ SubSeq(krecord.b, 1, 4) = START_ID

\* the length a buffer declares in bytes 4 and 5
DeclaredLength(b) == 256 * b[5] + b[6]

\* C28: two buffers of at least 60 bytes with the '#KMB' tag that differ only
\* in bytes 4 to 7 decode to the same record, and both are accepted
\* whatever length they declare.
C28_HeaderIgnored ==
  (KMBCompared /\ TaggedDatagram) =>
    /\ kraised = "none" /\ kother.exc = "none"
    /\ kresult # None
    /\ kother.value = kresult

\* a datagram declaring length 7 and version 2 gave the record of the one
\* declaring length 60 and version 1
C28_Witness ==
  /\ KMBCompared
  /\ TaggedDatagram
  /\ DeclaredLength(krecord.b) = STRUCT_SIZE
  /\ DeclaredLength(kother.record.b) = 7
  /\ kother.value = kresult
  /\ kresult # None

====
